---- MODULE Spec2Model ----
(***************************************************************************)
(* PSARc: the archive writer (pak.c), the ordered worker pool (threads.c), *)
(* the block-size table codec (pak.c / unpak.c / common.c) and the reader's *)
(* block pipeline (unpak.c), as state machines.                             *)
(*                                                                         *)
(* Spec      create_archive with its worker pool at the granularity of the *)
(*           pthread calls (one action per blocking call), or synchronous  *)
(*           when num_threads = 0.                                         *)
(* SpecPak   create_archive run synchronously followed by process_archive  *)
(*           (extract) over a wide range of names, flags, block sizes and  *)
(*           block contents.                                               *)
(***************************************************************************)
EXTENDS Integers, Sequences, FiniteSets, TLC

(***************************************************************************)
(* Program constants                                                       *)
(***************************************************************************)
PSARC_STORE == 0
PSARC_ZLIB == 1
PSARC_LZMA == 2
AF_ICASE == 1
AF_ABSPATH == 2
THREADS_STAT_UNSTARTED == -1
THREADS_STAT_FREE == 0
THREADS_STAT_RESERVED == 1
THREADS_STAT_RUNNING == 2
THREADS_STAT_WAIT_FOR_ORDERER_CONTINUE == 3
SizeofHeader == 32
SizeofToc == 30

(***************************************************************************)
(* Bounds of the model                                                     *)
(***************************************************************************)
MaxThreads == 2
MaxFiles == 2
MaxFileBlocks == 2
PoolBlockSize == 40

\* A field of malloc'ed memory that was never assigned.
Undef == -1
\* The values an uninitialised 32/64-bit field may turn out to hold.
Garbage == {0, 5}

Min(a, b) == IF a < b THEN a ELSE b

RECURSIVE Pow2(_)
Pow2(n) == IF n = 0 THEN 1 ELSE 2 * Pow2(n - 1)

RECURSIVE SumSeq(_)
SumSeq(s) == IF s = <<>> THEN 0 ELSE Head(s) + SumSeq(Tail(s))

RECURSIVE BitAnd(_, _)
BitAnd(a, b) ==
    IF a = 0 \/ b = 0 THEN 0
    ELSE (a % 2) * (b % 2) + 2 * BitAnd(a \div 2, b \div 2)

(***************************************************************************)
(* hashset.c: a chained hash table of strings.  The table is held as the   *)
(* sequence of its nodes, the most recently inserted first, each with the  *)
(* index of its chain; the chain of an index is the nodes that carry it.   *)
(***************************************************************************)
\* The size decompress_files and main pass to hashset_init.
HashSize == 65536

\* The value of a char.
char_code(c) ==
    CASE c = "a" -> 97 [] c = "b" -> 98 [] c = "d" -> 100 [] c = "t" -> 116
      [] c = "x" -> 120 [] c = "A" -> 65 [] c = "B" -> 66 [] c = "^" -> 94
      [] c = "/" -> 47 [] c = "." -> 46 [] c = "\n" -> 10 [] c = "c" -> 99
      [] c = "l" -> 108 [] c = "w" -> 119

tolower(c) == CASE c = "A" -> "a" [] c = "B" -> "b" [] OTHER -> c

lcase(str) == [i \in 1..Len(str) |-> tolower(str[i])]

RECURSIVE hash_loop(_, _, _)
hash_loop(str, i, h) ==
    IF i > Len(str) THEN h ELSE hash_loop(str, i + 1, h * 31 + char_code(str[i]))

hash(str, size) == hash_loop(str, 1, 0) % size

hashset_init == <<>>

hashset_containsAtIndex(set, value, index) ==
    \E n \in 1..Len(set) : set[n].index = index /\ set[n].value = value

hashset_contains(set, value) ==
    hashset_containsAtIndex(set, value, hash(value, HashSize))

\* hashset_add: [ret, set]
hashset_add_always(set, value) ==
    [ret |-> 1, set |-> <<[index |-> hash(value, HashSize), value |-> value]>> \o set]

hashset_add(set, value) ==
    LET index == hash(value, HashSize)
    IN IF hashset_containsAtIndex(set, value, index)
       THEN [ret |-> 0, set |-> set]
       ELSE [ret |-> 1, set |-> <<[index |-> index, value |-> value]>> \o set]

\* hashset_del: the first node of the value's chain that holds it is unlinked.
hashset_del(set, value) ==
    LET index == hash(value, HashSize)
        hit(n) == set[n].index = index /\ set[n].value = value
    IN IF \E n \in 1..Len(set) : hit(n)
       THEN LET n == CHOOSE m \in 1..Len(set) : hit(m) /\ \A k \in 1..(m - 1) : ~hit(k)
            IN [ret |-> 1, set |-> SubSeq(set, 1, n - 1) \o SubSeq(set, n + 1, Len(set))]
       ELSE [ret |-> 0, set |-> set]

(***************************************************************************)
(* Inputs of create_archive (set by main.c before the call) and its state  *)
(***************************************************************************)
VARIABLES
    compression_type,   \* _ArchiveInfo.compression_type
    block_size,         \* _ArchiveInfo.block_size
    archive_flags,      \* _ArchiveInfo.archive_flags
    trim_path_flag,     \* _Config.trim_path_flag
    num_threads,        \* _Config.num_threads
    files,              \* files[]: each [name, size, delta, sig] (the file on disk)
    mdelta,             \* how the codec changes the length of the manifest's blocks
    overwrite_flag,     \* _Config.overwrite_flag
    skip_existing_files_flag,   \* _Config.skip_existing_files_flag
    rd_files,           \* decompress_files' files[]: the names to extract, <<>> for all
    unwritable,         \* the output paths that fopen(.., "wb") cannot open
    unreadable,         \* the indices of files[] that fopen(.., "rb") cannot open
    truncated_at,       \* the length of the file process_archive opens when it was cut short
    file_magic,         \* the first four bytes of the file process_archive opens
    filelist,           \* FILELIST: [files, count, set] with the arguments still to add
    mpc,                \* where the main thread is in create_archive / process_archive
    ret,                \* the return value of create_archive (Undef while it runs)
    i_entry,            \* create_archive's loop variable i
    blocks,             \* compress_entry_multi's blocks
    first_block,        \* compress_entry_multi's first_block
    slot,               \* compress_entry_multi's slot
    files_info_table,   \* FILEINFO[]: entry 0 is the manifest
    blocktable,         \* uint32_t blocktable[]
    blocktable_idx,
    total_size,
    toc_length,         \* _ArchiveInfo.toc_length
    toc_entries,        \* _ArchiveInfo.toc_entries
    filenames,          \* the manifest text
    archive,            \* the output file: [header, toc, bt, data]
    threads_current, threads_last, threads_available, threads_running,
    threads_max, last_idx,
    threads_shared_mutex,   \* its owner: NoOwner, MainThread or a worker index
    threads_info,           \* THREADS_INFO[] with each worker's position
    submitted,          \* history: the blocks in the order threads_start_task issued tickets
    committed,          \* history: the blocks in the order their commit section ran
    rd_ArchiveInfo,     \* process_archive: _ArchiveInfo as read_header fills it
    rd_files_info_table,\* process_archive: FILEINFO[] of read_toc_table / read_filenames
    rd_blocktable,      \* process_archive: the table read_blocktable returns
    rd_i,               \* decompress_files' loop variable i
    extracted,          \* per extracted entry: [name, fail, out], the output file
    errors_count,       \* _errors
    successful_count,   \* _successful
    rd_ret,             \* the return value of process_archive (Undef while it runs)
    hset,               \* decompress_files' hset: the nodes of the hash set
    disk,               \* the output directory: path -> the file there
    rd_pc               \* where process_archive is: "idle", "files", "done"

options == <<compression_type, block_size, archive_flags, trim_path_flag,
             num_threads, files, mdelta, overwrite_flag, skip_existing_files_flag,
             rd_files, unwritable, unreadable, truncated_at, file_magic>>
inputs == <<options, filelist>>
writer == <<files_info_table, blocktable, blocktable_idx, total_size,
            toc_length, toc_entries, filenames, archive>>
mainv == <<mpc, ret, i_entry, blocks, first_block, slot>>
pool == <<threads_current, threads_last, threads_available, threads_running,
          threads_max, last_idx, threads_shared_mutex, threads_info>>
hist == <<submitted, committed>>
reader == <<rd_ArchiveInfo, rd_files_info_table, rd_blocktable, rd_i, extracted,
            errors_count, successful_count, rd_ret, rd_pc, hset, disk>>
vars == <<inputs, writer, mainv, pool, hist, reader>>

(***************************************************************************)
(* Path normalisation of create_archive.  A name is a sequence of          *)
(* characters.                                                             *)
(***************************************************************************)
\* strrchr(p, '/'): the index of the last '/', 0 when there is none.
strrchr_slash(p) ==
    IF \E j \in 1..Len(p) : p[j] = "/"
    THEN CHOOSE j \in 1..Len(p) : p[j] = "/" /\ \A k \in (j+1)..Len(p) : p[k] # "/"
    ELSE 0

\* while ( *p == '/' ) p++
RECURSIVE skip_slashes(_)
skip_slashes(p) ==
    IF p # <<>> /\ Head(p) = "/" THEN skip_slashes(Tail(p)) ELSE p

has_abspath == BitAnd(archive_flags, AF_ABSPATH) # 0

\* The first loop of create_archive: the length added to filenames_len for one name.
name_len(p0) ==
    LET px == strrchr_slash(p0)
        p  == IF trim_path_flag /\ px # 0 THEN SubSeq(p0, px + 1, Len(p0)) ELSE p0
    IN IF has_abspath
       THEN Len(p) + (IF p = <<>> \/ Head(p) # "/" THEN 1 ELSE 0)
       ELSE Len(skip_slashes(p))

\* The second loop of create_archive: the text strcat'ed to filenames for one name.
stored_name_less_one_slash(f0) ==
    LET px    == strrchr_slash(f0)
        fname == IF trim_path_flag /\ px # 0 THEN SubSeq(f0, px, Len(f0)) ELSE f0
    IN IF has_abspath
       THEN (IF fname = <<>> \/ Head(fname) # "/" THEN <<"/">> ELSE <<>>) \o fname
       ELSE IF fname # <<>> /\ Head(fname) = "/" THEN Tail(fname) ELSE fname

stored_name(f0) ==
    LET px    == strrchr_slash(f0)
        fname == IF trim_path_flag /\ px # 0 THEN SubSeq(f0, px, Len(f0)) ELSE f0
    IN IF has_abspath
       THEN (IF fname = <<>> \/ Head(fname) # "/" THEN <<"/">> ELSE <<>>) \o fname
       ELSE skip_slashes(fname)

RECURSIVE build_filenames(_, _)
build_filenames(fs, i) ==
    IF i > Len(fs) THEN <<>>
    ELSE stored_name(fs[i].name)
         \o (IF i < Len(fs) THEN <<"\n">> ELSE <<>>)
         \o build_filenames(fs, i + 1)

RECURSIVE filenames_len_of(_, _)
filenames_len_of(fs, i) ==
    IF i > Len(fs) THEN 0
    ELSE name_len(fs[i].name) + (IF i < Len(fs) THEN 1 ELSE 0)
         + filenames_len_of(fs, i + 1)

\* md5(): an ideal hash, one digest per byte string.
md5(s) == [zero |-> FALSE, of |-> s]
\* memset(toc.name_digest, 0, 16)
ZeroDigest == [zero |-> TRUE, of |-> <<>>]

(***************************************************************************)
(* Block framing and the compress-or-store decision                        *)
(***************************************************************************)
\* common.c get_blocktable_item_size (block_size is a uint32_t, so the last
\* test, block_size <= 0x100000000, always succeeds).
item_size_for(bs) ==
    IF bs <= 256 THEN 1
    ELSE IF bs <= 65536 THEN 2
    ELSE IF bs <= 16777216 THEN 3
    ELSE 4

\* The writer's call: _ArchiveInfo.block_size is the block size given to create.
get_blocktable_item_size == item_size_for(block_size)

\* ( uncompressed_size + block_size - 1 ) / block_size
num_blocks_of(size) == (size + block_size - 1) \div block_size

\* to_read of the block when `blks` blocks remain and `done` bytes were read.
to_read_of(size, blks, done) ==
    IF blks > 1 THEN block_size ELSE Min(size - done, block_size)

\* zlib's compressBound(sourceLen)
compressBound(n) == n + (n \div 4096) + (n \div 16384) + (n \div 33554432) + 13

\* The shortest stream the codec library produces (zlib: header, one deflate
\* block, adler32; xz: stream header, block, index, footer).
codec_min_len(codec) == IF codec = PSARC_LZMA THEN 32 ELSE 8

\* The length C of the complete encoded stream of block `k` of entry `e`, whose
\* natural length is L: a property of the data, given by the input.
enc_len(e, L) ==
    LET d == IF e = 0 THEN mdelta ELSE files[e].delta
        c == L + d
    IN IF c < codec_min_len(compression_type)
       THEN codec_min_len(compression_type) ELSE c

\* Whether the codec library fails on the blocks of entry e.
enc_ok(e) == IF e = 0 THEN TRUE ELSE files[e].encok

\* Mutant of emit_block: the encoded bytes are kept when they are as long as
\* the block.
emit_block_when_longer(L, C, cap, ok) ==
    IF compression_type = PSARC_ZLIB \/ compression_type = PSARC_LZMA
    THEN LET bytes_write == IF ok THEN Min(C, cap) ELSE IF cap >= L THEN cap ELSE L
         IN IF bytes_write > L
            THEN [len |-> L, raw |-> TRUE]
            ELSE [len |-> bytes_write, raw |-> FALSE]
    ELSE [len |-> L, raw |-> TRUE]

\* The switch of compress_entry_thread / compress_entry: what is written for a
\* block of natural length L whose encoded stream has C bytes, with an output
\* capacity of `cap` bytes.  A failing or truncated encoder leaves
\* bytes_write >= L (zlib: dest_len; lzma: dest_len - avail_out, or the
\* explicit error branch).
emit_block(L, C, cap, ok) ==
    IF compression_type = PSARC_ZLIB \/ compression_type = PSARC_LZMA
    THEN LET bytes_write == IF ok THEN Min(C, cap) ELSE IF cap >= L THEN cap ELSE L
         IN IF bytes_write >= L
            THEN [len |-> L, raw |-> TRUE]
            ELSE [len |-> bytes_write, raw |-> FALSE]
    ELSE [len |-> L, raw |-> TRUE]

\* dest_len of the synchronous path (compress_entry).
sync_cap(L) ==
    IF compression_type = PSARC_ZLIB THEN compressBound(L) ELSE block_size

\* dest_len of the threaded path (compress_entry_thread).
thread_cap == block_size * 2

\* The leading bytes of a zlib stream made by compress2 (78 01 / 5E / 9C / DA)
\* and of an xz stream (FD 37 7A 58 5A 00), or neither.
codec_sig == IF compression_type = PSARC_LZMA THEN "xz" ELSE "zlib"

\* The leading bytes of text: "x^" is 78 5E.
text_sig(t) == IF Len(t) >= 2 /\ t[1] = "x" /\ t[2] = "^" THEN "zlib" ELSE "none"

\* The leading bytes of the input bytes of block k of entry e.
raw_sig(e, k) ==
    IF e = 0
    THEN LET t == build_filenames(files, 1)
         IN text_sig(SubSeq(t, k * block_size + 1, Len(t)))
    ELSE files[e].sig

\* One chunk of the data region: the bytes written by one fwrite for block k of
\* entry e, whose input was L bytes: how many, whether they are the input
\* bytes, and how they begin.
chunk(e, k, len, raw, L) ==
    [entry |-> e, blk |-> k, len |-> len, raw |-> raw, nat |-> L,
     sig |-> IF raw THEN raw_sig(e, k) ELSE codec_sig]

(***************************************************************************)
(* compress_entry: the synchronous pipeline of one entry, on the writer    *)
(* state ws = [fit, bt, idx, total, data].                                 *)
(***************************************************************************)
RECURSIVE compress_entry_loop(_, _, _, _, _)
compress_entry_loop(ws, e, blks, bytes_compressed, bytes_uncompressed) ==
    IF blks = 0
    THEN [ws EXCEPT !.total = @ + bytes_compressed,
                    !.fit[e].compressed_size = bytes_compressed]
    ELSE LET size == ws.fit[e].uncompressed_size
             L    == to_read_of(size, blks, bytes_uncompressed)
             k    == ws.fit[e].num_blocks - blks
             em   == emit_block(L, enc_len(e, L), sync_cap(L), enc_ok(e))
         IN compress_entry_loop(
                [ws EXCEPT !.data = Append(@, chunk(e, k, em.len, em.raw, L)),
                           !.bt[ws.idx] = em.len,
                           !.idx = @ + 1],
                e, blks - 1, bytes_compressed + em.len, bytes_uncompressed + L)

compress_entry(ws, e) ==
    compress_entry_loop(
        [ws EXCEPT !.fit[e].offset = ws.total,
                   !.fit[e].block_index = ws.idx],
        e, ws.fit[e].num_blocks, 0, 0)

(***************************************************************************)
(* The output file                                                         *)
(***************************************************************************)
\* The big-endian bytes of v in n bytes (htons, hton24, htonl, hton40): byte k
\* is (v >> 8 * (n - k)) & 0xFF.
RECURSIVE be_bytes(_, _)
be_bytes(v, n) ==
    IF n = 0 THEN <<>> ELSE Append(be_bytes(v \div 256, n - 1), v % 256)

\* The value of big-endian bytes (ntohs, ntoh24, ntohl, ntoh40).
RECURSIVE be_value(_)
be_value(b) ==
    IF b = <<>> THEN 0
    ELSE be_value(SubSeq(b, 1, Len(b) - 1)) * 256 + b[Len(b)]

\* Mutant of write_header: the tag follows the codec only when it is zlib.
write_header_store_as_lzma(tl, te) ==
    [magic            |-> "PSAR",
     version          |-> be_bytes(65540, 4),
     compression_type |-> IF compression_type = PSARC_ZLIB THEN "zlib" ELSE "lzma",
     toc_length       |-> be_bytes(tl, 4),
     toc_entry_size   |-> be_bytes(SizeofToc, 4),
     toc_entries      |-> be_bytes(te, 4),
     block_size       |-> be_bytes(block_size, 4),
     archive_flags    |-> be_bytes(archive_flags, 4)]

\* write_header: the 32 bytes at offset 0, field by field.
write_header(tl, te) ==
    [magic            |-> "PSAR",
     version          |-> be_bytes(65540, 4),
     compression_type |-> IF compression_type = PSARC_LZMA THEN "lzma" ELSE "zlib",
     toc_length       |-> be_bytes(tl, 4),
     toc_entry_size   |-> be_bytes(SizeofToc, 4),
     toc_entries      |-> be_bytes(te, 4),
     block_size       |-> be_bytes(block_size, 4),
     archive_flags    |-> be_bytes(archive_flags, 4)]

\* What a read of the field yields: its value, or whatever the malloc'ed memory
\* held when the field was never assigned.
field(v, g) == IF v = Undef THEN g ELSE v

\* write_toc_table: one 30-byte entry.  g gives the bytes found in fields that
\* were never assigned.
toc_entry(fit, i, g) ==
    [name_digest       |-> IF i # 0 THEN md5(fit[i].filename) ELSE ZeroDigest,
     block_offset      |-> be_bytes(field(fit[i].block_index, g[i][1]), 4),
     uncompressed_size |-> be_bytes(fit[i].uncompressed_size, 5),
     file_offset       |-> be_bytes(field(fit[i].offset, g[i][2]) + toc_length, 5)]

write_toc_table(fit, g) ==
    [i \in 0..(toc_entries - 1) |-> toc_entry(fit, i, g)]

\* write_blocktable: the bytes of one item, for the item width in use.
blocktable_item(v) ==
    LET item_size == get_blocktable_item_size
    IN CASE item_size = 1 -> be_bytes(v % 256, 1)
         [] item_size = 2 -> be_bytes(v % 65536, 2)
         [] item_size = 3 -> be_bytes(v % 1048576, 3)
         [] OTHER -> be_bytes(v, 4)

write_blocktable(bt) ==
    [i \in DOMAIN bt |-> blocktable_item(bt[i])]

\* FILEINFO as malloc leaves it.
fresh_fileinfo ==
    [filename |-> <<>>, offset |-> Undef, block_index |-> Undef,
     num_blocks |-> Undef, compressed_size |-> Undef, uncompressed_size |-> Undef]

\* create_archive up to the manifest: the tables after get_blocktable_size.
initial_table(fs) ==
    [i \in 0..Len(fs) |->
        IF i = 0
        THEN [fresh_fileinfo EXCEPT
                 !.uncompressed_size = filenames_len_of(fs, 1),
                 !.num_blocks = num_blocks_of(filenames_len_of(fs, 1))]
        ELSE [fresh_fileinfo EXCEPT
                 !.uncompressed_size = fs[i].size,
                 !.num_blocks = num_blocks_of(fs[i].size)]]

\* get_blocktable_size: the sum of the files' block counts.
get_blocktable_size(fs) ==
    SumSeq([i \in 1..Len(fs) |-> num_blocks_of(fs[i].size)])

\* blocktable_size of create_archive.
blocktable_size_of(fs) ==
    num_blocks_of(filenames_len_of(fs, 1)) + get_blocktable_size(fs)

\* Mutant of toc_length_of: the manifest's blocks are not counted.
toc_length_without_manifest(fs) ==
    SizeofHeader + (Len(fs) + 1) * SizeofToc
        + get_blocktable_size(fs) * get_blocktable_item_size

\* _ArchiveInfo.toc_length as create_archive computes it.
toc_length_of(fs) ==
    SizeofHeader + (Len(fs) + 1) * SizeofToc
        + blocktable_size_of(fs) * get_blocktable_item_size

(***************************************************************************)
(* The worker pool (threads.c)                                             *)
(***************************************************************************)
\* A pthread mutex nobody holds.
NoOwner == -1
\* The main thread as a mutex owner (workers are 0 .. threads_max - 1).
MainThread == MaxThreads + 1

Workers == DOMAIN threads_info

\* The slot's user data before compress_entry_multi fills it.
fresh_pkd ==
    [is_first_block |-> FALSE, is_last_block |-> FALSE, fi |-> 0,
     blocktable_idx |-> 0, data_size |-> 0, blk |-> 0]

\* threads_init: one THREADS_INFO per worker, its thread about to enter threads_fn.
fresh_thread ==
    [status |-> THREADS_STAT_UNSTARTED, tid |-> 0, mutex |-> NoOwner,
     pc |-> "fn_lock", data |-> fresh_pkd,
     my_tid |-> 0, bytes_write |-> 0, raw |-> FALSE,
     thread_hnd |-> 1, cancel |-> FALSE]

\* The range of the int counters threads_current and threads_last.
IntMax == 2147483647
IntMin == 0 - IntMax - 1

\* x++ on an int in memory: the increment instruction wraps.
int_inc(t) == IF t = IntMax THEN IntMin ELSE t + 1

\* Mutant of next_ticket: the counter passes through 0.
next_ticket_through_zero(t) == int_inc(t)

\* threads_current++ / threads_last++ followed by "if (!x) x = 1".
next_ticket(t) == IF int_inc(t) = 0 THEN 1 ELSE int_inc(t)

\* pthread_cond_signal(&threads_info[s].condition)
cond_signal(ti, s) ==
    IF ti[s].pc = "fn_wait" THEN [ti EXCEPT ![s].pc = "fn_wake"] ELSE ti

\* Mutant of cond_broadcast: nobody is woken.
cond_broadcast_lost(ti) == ti

\* pthread_cond_broadcast(&threads_shared_condition)
cond_broadcast(ti) ==
    [w \in DOMAIN ti |->
        IF ti[w].pc = "ord_wait" THEN [ti[w] EXCEPT !.pc = "ord_wake"] ELSE ti[w]]

(***************************************************************************)
(* create_archive, main thread                                             *)
(***************************************************************************)
empty_archive == [exists |-> FALSE, header |-> <<>>, toc |-> <<>>, bt |-> <<>>, data |-> <<>>]

\* A file that was at the output path before create_archive was called.
old_archive ==
    [empty_archive EXCEPT
        !.exists = TRUE,
        !.data = <<[entry |-> 0 - 1, blk |-> 0, len |-> 1, raw |-> TRUE, nat |-> 1,
                    sig |-> "none"]>>]

\* Lines 543-546: !_Config.overwrite_flag && access(output_path, F_OK) == 0
output_refused_never == FALSE

output_refused == ~overwrite_flag /\ archive.exists

\* Lines 542-749: the overwrite test, tables, manifest text, header, the
\* manifest's blocks, threads_init.
CreateBegin ==
    /\ mpc = "start"
    /\ IF output_refused
       THEN \* "archive already exists (use -y for overwrite)"
            /\ mpc' = "done"
            /\ ret' = 1
            /\ UNCHANGED <<writer, pool, i_entry>>
       ELSE IF get_blocktable_size(files) = 0
       THEN \* "no files to add"
            /\ mpc' = "done"
            /\ ret' = 1
            /\ UNCHANGED <<writer, pool, i_entry>>
       ELSE LET n   == Len(files)
                tl  == toc_length_of(files)
                ws0 == [fit   |-> initial_table(files),
                        bt    |-> [j \in 0..(blocktable_size_of(files) - 1) |-> Undef],
                        idx   |-> 0, total |-> 0, data |-> <<>>]
                ws  == compress_entry(ws0, 0)
            IN /\ filenames' = build_filenames(files, 1)
               /\ toc_entries' = n + 1
               /\ toc_length' = tl
               /\ files_info_table' = ws.fit
               /\ blocktable' = ws.bt
               /\ blocktable_idx' = ws.idx
               /\ total_size' = ws.total
               /\ archive' = [empty_archive EXCEPT
                                 !.exists = TRUE,
                                 !.header = write_header(tl, n + 1),
                                 !.data = ws.data]
               /\ IF num_threads > 0
                  THEN /\ threads_info' = [w \in 0..(num_threads - 1) |-> fresh_thread]
                       /\ threads_max' = num_threads
                       /\ threads_available' = num_threads
                       /\ threads_current' = 1
                       /\ threads_last' = 1
                       /\ threads_running' = 0
                       /\ UNCHANGED <<last_idx, threads_shared_mutex>>
                  ELSE UNCHANGED pool
               /\ i_entry' = 1
               /\ mpc' = "loop"
               /\ ret' = ret
    /\ UNCHANGED <<inputs, blocks, first_block, slot, hist, reader>>

\* Loop body with num_threads = 0: fopen, compress_entry, fclose.
EntrySync ==
    /\ mpc = "loop"
    /\ i_entry < toc_entries
    /\ num_threads = 0
    /\ i_entry \notin unreadable
    /\ LET ws0 == [fit   |-> [files_info_table EXCEPT
                                 ![i_entry].filename = files[i_entry].name],
                   bt    |-> blocktable, idx |-> blocktable_idx,
                   total |-> total_size, data |-> archive.data]
           ws  == compress_entry(ws0, i_entry)
       IN /\ files_info_table' = ws.fit
          /\ blocktable' = ws.bt
          /\ blocktable_idx' = ws.idx
          /\ total_size' = ws.total
          /\ archive' = [archive EXCEPT !.data = ws.data]
    /\ i_entry' = i_entry + 1
    /\ UNCHANGED <<inputs, toc_length, toc_entries, filenames, mpc, ret, blocks,
                   first_block, slot, pool, hist, reader>>

\* Loop body with num_threads > 0: fopen, then compress_entry_multi up to its
\* first threads_get_free_slot, or through its else branch for an empty file.
EntryMulti ==
    /\ mpc = "loop"
    /\ i_entry < toc_entries
    /\ num_threads > 0
    /\ i_entry \notin unreadable
    /\ LET size == files_info_table[i_entry].uncompressed_size
       IN IF size # 0
          THEN /\ blocks' = num_blocks_of(size)
               /\ first_block' = TRUE
               /\ mpc' = "gfs"
               /\ files_info_table' =
                      [files_info_table EXCEPT ![i_entry].filename = files[i_entry].name]
               /\ UNCHANGED i_entry
          ELSE /\ files_info_table' =
                      [files_info_table EXCEPT ![i_entry].filename = files[i_entry].name,
                                               ![i_entry].compressed_size = 0]
               /\ i_entry' = i_entry + 1
               /\ UNCHANGED <<blocks, first_block, mpc>>
    /\ UNCHANGED <<inputs, blocktable, blocktable_idx, total_size, toc_length,
                   toc_entries, filenames, archive, ret, slot, pool, hist, reader>>

\* threads_get_free_slot: lock the pool mutex, test threads_available, advance
\* last_idx; with no worker available unlock and usleep.
GetFreeSlot ==
    /\ mpc = "gfs"
    /\ threads_shared_mutex = NoOwner
    /\ IF threads_available # 0
       THEN /\ last_idx' = IF last_idx + 1 >= threads_max THEN 0 ELSE last_idx + 1
            /\ threads_shared_mutex' = MainThread
            /\ mpc' = "gfs_slot"
       ELSE UNCHANGED <<last_idx, threads_shared_mutex, mpc>>
    /\ UNCHANGED <<inputs, writer, ret, i_entry, blocks, first_block, slot,
                   threads_current, threads_last, threads_available,
                   threads_running, threads_max, threads_info, hist, reader>>

\* Mutant of slot_is_free: the status of the slot is not looked at.
slot_is_free_whatever(idx) == TRUE

\* threads_get_free_slot's test of the slot, under the slot's mutex.
slot_is_free(idx) == threads_info[idx].status = THREADS_STAT_FREE

\* threads_get_free_slot: lock the slot's mutex (the pool mutex held), reserve
\* the slot when it is FREE, unlock both.
GetFreeSlotTry ==
    /\ mpc = "gfs_slot"
    /\ threads_info[last_idx].mutex = NoOwner
    /\ IF slot_is_free(last_idx)
       THEN /\ threads_available' = threads_available - 1
            /\ threads_info' = [threads_info EXCEPT
                                   ![last_idx].status = THREADS_STAT_RESERVED]
            /\ slot' = last_idx
            /\ mpc' = "fill"
       ELSE /\ mpc' = "gfs"
            /\ UNCHANGED <<threads_available, threads_info, slot>>
    /\ threads_shared_mutex' = NoOwner
    /\ UNCHANGED <<inputs, writer, ret, i_entry, blocks, first_block,
                   threads_current, threads_last, threads_running, threads_max,
                   last_idx, hist, reader>>

\* compress_entry_multi lines 229-244: fill the slot's PAKDATA and read the block.
FillSlot ==
    /\ mpc = "fill"
    /\ LET size == files_info_table[i_entry].uncompressed_size
           k    == num_blocks_of(size) - blocks
           L    == to_read_of(size, blocks, k * block_size)
       IN threads_info' = [threads_info EXCEPT ![slot].data =
              [is_first_block |-> first_block,
               is_last_block  |-> (blocks = 1),
               fi             |-> i_entry,
               blocktable_idx |-> blocktable_idx,
               data_size      |-> L,
               blk            |-> k]]
    /\ mpc' = "start_task"
    /\ UNCHANGED <<inputs, writer, ret, i_entry, blocks, first_block, slot,
                   threads_current, threads_last, threads_available,
                   threads_running, threads_max, last_idx, threads_shared_mutex,
                   hist, reader>>

\* compress_entry_multi after threads_start_task returned.
after_start_task ==
    /\ blocktable_idx' = blocktable_idx + 1
    /\ blocks' = blocks - 1
    /\ first_block' = FALSE
    /\ IF blocks - 1 > 0
       THEN /\ mpc' = "gfs"
            /\ UNCHANGED i_entry
       ELSE /\ mpc' = "loop"
            /\ i_entry' = i_entry + 1

\* threads_start_task: lock the slot, issue the ticket, signal once, unlock.
StartTask ==
    /\ mpc = "start_task"
    /\ threads_info[slot].mutex = NoOwner
    /\ IF threads_info[slot].status # THREADS_STAT_RESERVED
       THEN /\ after_start_task
            /\ UNCHANGED <<threads_info, threads_last, submitted>>
       ELSE /\ threads_info' = cond_signal(
                   [threads_info EXCEPT ![slot].tid = threads_last], slot)
            /\ threads_last' = next_ticket(threads_last)
            /\ submitted' = Append(submitted,
                   [entry |-> threads_info[slot].data.fi, blk |-> threads_info[slot].data.blk])
            /\ mpc' = "start_task_poll"
            /\ UNCHANGED <<blocktable_idx, blocks, first_block, i_entry>>
    /\ UNCHANGED <<inputs, files_info_table, blocktable, total_size, toc_length,
                   toc_entries, filenames, archive, ret, slot, threads_current,
                   threads_available, threads_running, threads_max, last_idx,
                   threads_shared_mutex, committed, reader>>

\* threads_start_task: after usleep(1), lock the slot again; signal again while
\* it is still RESERVED, return otherwise.
StartTaskPoll ==
    /\ mpc = "start_task_poll"
    /\ threads_info[slot].mutex = NoOwner
    /\ IF threads_info[slot].status = THREADS_STAT_RESERVED
       THEN /\ threads_info' = cond_signal(threads_info, slot)
            /\ UNCHANGED <<blocktable_idx, blocks, first_block, i_entry, mpc>>
       ELSE /\ after_start_task
            /\ UNCHANGED threads_info
    /\ UNCHANGED <<inputs, files_info_table, blocktable, total_size, toc_length,
                   toc_entries, filenames, archive, ret, slot, threads_current,
                   threads_last, threads_available, threads_running, threads_max,
                   last_idx, threads_shared_mutex, hist, reader>>

\* End of the loop over the entries.
LoopEnd ==
    /\ mpc = "loop"
    /\ i_entry >= toc_entries
    /\ mpc' = IF num_threads > 0 THEN "wait" ELSE "finish"
    /\ UNCHANGED <<inputs, writer, ret, i_entry, blocks, first_block, slot,
                   pool, hist, reader>>

\* Mutant of completion_done: the dispatcher does not wait.
completion_done_at_once == TRUE

\* threads_wait_for_completion's done, read under the pool mutex.
completion_done == threads_running = 0 /\ threads_available = threads_max

\* threads_wait_for_completion: one poll.
WaitForCompletion ==
    /\ mpc = "wait"
    /\ threads_shared_mutex = NoOwner
    /\ mpc' = IF completion_done THEN "finish" ELSE "wait"
    /\ UNCHANGED <<inputs, writer, ret, i_entry, blocks, first_block, slot,
                   pool, hist, reader>>

\* threads_free: cancel and join the workers, reset the pool.
threads_free ==
    /\ threads_info' = <<>>
    /\ threads_max' = 0
    /\ threads_current' = 1
    /\ threads_last' = 1
    /\ threads_available' = 0
    /\ threads_running' = 0
    /\ threads_shared_mutex' = NoOwner
    /\ UNCHANGED last_idx

\* The thread threads_free's loop is at: the first one not yet joined.
free_index == CHOOSE i \in Workers :
                  threads_info[i].thread_hnd # 0
                  /\ \A k \in Workers : k < i => threads_info[k].thread_hnd = 0

\* Lines 751-770 up to threads_free: fopen of the input fails; fclose of the
\* archive, the tables and buffers freed, unlink(output_path).
EntryAbort ==
    /\ mpc = "loop"
    /\ i_entry < toc_entries
    /\ i_entry \in unreadable
    /\ archive' = empty_archive
    /\ IF num_threads > 0
       THEN mpc' = "tf_cancel" /\ UNCHANGED ret
       ELSE mpc' = "done" /\ ret' = 1
    /\ UNCHANGED <<inputs, files_info_table, blocktable, blocktable_idx, total_size,
                   toc_length, toc_entries, filenames, i_entry, blocks, first_block,
                   slot, pool, hist, reader>>

\* threads_free called from the abort path: pthread_cancel of the next thread.
TfCancel ==
    /\ mpc = "tf_cancel"
    /\ threads_info' = [threads_info EXCEPT ![free_index].cancel = TRUE]
    /\ mpc' = "tf_join"
    /\ UNCHANGED <<inputs, writer, ret, i_entry, blocks, first_block, slot,
                   threads_current, threads_last, threads_available, threads_running,
                   threads_max, last_idx, threads_shared_mutex, hist, reader>>

\* pthread_join returns once the thread has ended; after the last thread the
\* pool is reset and create_archive returns 1.
TfJoin ==
    /\ mpc = "tf_join"
    /\ threads_info[free_index].pc = "dead"
    /\ IF free_index + 1 < threads_max
       THEN /\ threads_info' = [threads_info EXCEPT ![free_index].thread_hnd = 0]
            /\ mpc' = "tf_cancel"
            /\ UNCHANGED <<ret, threads_current, threads_last, threads_available,
                           threads_running, threads_max, last_idx, threads_shared_mutex>>
       ELSE /\ threads_free
            /\ mpc' = "done"
            /\ ret' = 1
    /\ UNCHANGED <<inputs, writer, i_entry, blocks, first_block, slot, hist, reader>>

\* Lines 791-809: threads_free, write_toc_table, write_blocktable, fclose.
Finish ==
    /\ mpc = "finish"
    /\ IF num_threads > 0 THEN threads_free ELSE UNCHANGED pool
    /\ \E g \in [0..(toc_entries - 1) -> Garbage \X Garbage] :
          /\ \A i \in 0..(toc_entries - 1) :
                 /\ files_info_table[i].block_index # Undef => g[i][1] = 0
                 /\ files_info_table[i].offset # Undef => g[i][2] = 0
          /\ archive' = [archive EXCEPT
                            !.toc = write_toc_table(files_info_table, g),
                            !.bt  = write_blocktable(blocktable)]
    /\ mpc' = "done"
    /\ ret' = 0
    /\ UNCHANGED <<inputs, files_info_table, blocktable, blocktable_idx, total_size,
                   toc_length, toc_entries, filenames, i_entry, blocks, first_block,
                   slot, hist, reader>>

(***************************************************************************)
(* Workers: threads_fn and compress_entry_thread                           *)
(***************************************************************************)
main_unchanged == UNCHANGED <<inputs, mainv, reader>>

\* threads_fn: lock the slot, status = FREE, pthread_cond_wait (which unlocks).
FnWait(w) ==
    /\ threads_info[w].pc = "fn_lock"
    /\ threads_info[w].mutex = NoOwner
    /\ threads_info' = [threads_info EXCEPT ![w].status = THREADS_STAT_FREE,
                                            ![w].pc = "fn_wait"]
    /\ main_unchanged
    /\ UNCHANGED <<writer, threads_current, threads_last, threads_available,
                   threads_running, threads_max, last_idx, threads_shared_mutex, hist>>

\* pthread_cond_wait returns: the signalled worker takes its mutex again.
FnWake(w) ==
    /\ threads_info[w].pc = "fn_wake"
    /\ threads_info[w].mutex = NoOwner
    /\ threads_info' = [threads_info EXCEPT ![w].mutex = w, ![w].pc = "fn_shared"]
    /\ main_unchanged
    /\ UNCHANGED <<writer, threads_current, threads_last, threads_available,
                   threads_running, threads_max, last_idx, threads_shared_mutex, hist>>

\* threads_fn: threads_running++ under the pool mutex, status = RUNNING, unlock
\* the slot.
FnRun(w) ==
    /\ threads_info[w].pc = "fn_shared"
    /\ threads_shared_mutex = NoOwner
    /\ threads_running' = threads_running + 1
    /\ threads_info' = [threads_info EXCEPT ![w].status = THREADS_STAT_RUNNING,
                                            ![w].mutex = NoOwner,
                                            ![w].pc = "encode"]
    /\ main_unchanged
    /\ UNCHANGED <<writer, threads_current, threads_last, threads_available,
                   threads_max, last_idx, threads_shared_mutex, hist>>

\* compress_entry_thread lines 77-167: encode the block in the slot's buffers.
Encode(w) ==
    /\ threads_info[w].pc = "encode"
    /\ LET pkd == threads_info[w].data
           em  == emit_block(pkd.data_size, enc_len(pkd.fi, pkd.data_size),
                             thread_cap, enc_ok(pkd.fi))
       IN threads_info' = [threads_info EXCEPT ![w].bytes_write = em.len,
                                               ![w].raw = em.raw,
                                               ![w].pc = "ord_lock"]
    /\ main_unchanged
    /\ UNCHANGED <<writer, threads_current, threads_last, threads_available,
                   threads_running, threads_max, last_idx, threads_shared_mutex, hist>>

\* threads_wait_for_orderer_continue: lock the pool mutex.
OrdLock(w) ==
    /\ threads_info[w].pc = "ord_lock"
    /\ threads_shared_mutex = NoOwner
    /\ threads_shared_mutex' = w
    /\ threads_info' = [threads_info EXCEPT ![w].pc = "ord_slot"]
    /\ main_unchanged
    /\ UNCHANGED <<writer, threads_current, threads_last, threads_available,
                   threads_running, threads_max, last_idx, hist>>

\* Mutant of ord_test: the worker does not wait for its ticket.
ord_test_no_wait(ti, w) == [ti EXCEPT ![w].pc = "commit"]

\* The worker's while (tid != threads_current): wait (unlocking the pool mutex),
\* or leave the loop and unlock.
ord_test(ti, w) ==
    IF ti[w].my_tid # threads_current
    THEN [ti EXCEPT ![w].pc = "ord_wait"]
    ELSE [ti EXCEPT ![w].pc = "commit"]

\* Mutant of OrdSlot: the worker whose ticket is current goes on without
\* unlocking the pool mutex.
OrdSlot_keeps_pool_mutex(w) ==
    /\ threads_info[w].pc = "ord_slot"
    /\ threads_info[w].mutex = NoOwner
    /\ threads_info' = ord_test(
           [threads_info EXCEPT ![w].my_tid = threads_info[w].tid,
                                ![w].status = THREADS_STAT_WAIT_FOR_ORDERER_CONTINUE], w)
    /\ threads_shared_mutex' = IF threads_info[w].tid = threads_current THEN w ELSE NoOwner
    /\ main_unchanged
    /\ UNCHANGED <<writer, threads_current, threads_last, threads_available,
                   threads_running, threads_max, last_idx, hist>>

\* threads_wait_for_orderer_continue: lock the slot (the pool mutex held), read
\* the ticket, status = WAIT_FOR_ORDERER_CONTINUE, unlock the slot, first test.
OrdSlot(w) ==
    /\ threads_info[w].pc = "ord_slot"
    /\ threads_info[w].mutex = NoOwner
    /\ threads_info' = ord_test(
           [threads_info EXCEPT ![w].my_tid = threads_info[w].tid,
                                ![w].status = THREADS_STAT_WAIT_FOR_ORDERER_CONTINUE], w)
    /\ threads_shared_mutex' = NoOwner
    /\ main_unchanged
    /\ UNCHANGED <<writer, threads_current, threads_last, threads_available,
                   threads_running, threads_max, last_idx, hist>>

\* pthread_cond_wait on the pool condition returns: lock the pool mutex, test again.
OrdWake(w) ==
    /\ threads_info[w].pc = "ord_wake"
    /\ threads_shared_mutex = NoOwner
    /\ threads_info' = ord_test(threads_info, w)
    /\ main_unchanged
    /\ UNCHANGED <<writer, threads_current, threads_last, threads_available,
                   threads_running, threads_max, last_idx, threads_shared_mutex, hist>>

\* The exit status of a process killed by a memory fault.
Crashed == 139

\* create_archive's abort path has closed the archive and freed the tables.
released == mpc \in {"tf_cancel", "tf_join"}

\* compress_entry_thread lines 171-187: the commit section.  After the abort
\* path released them, pkd->fp is a closed FILE and pkd->fi and pkd->blocktable
\* point into freed memory: the writes are lost, or the process faults.
Commit(w) ==
    /\ threads_info[w].pc = "commit"
    /\ LET pkd == threads_info[w].data
           n   == threads_info[w].bytes_write
           fi  == files_info_table[pkd.fi]
       IN IF ~released
          THEN /\ archive' = [archive EXCEPT !.data = Append(@,
                      chunk(pkd.fi, pkd.blk, n, threads_info[w].raw, pkd.data_size))]
               /\ files_info_table' = [files_info_table EXCEPT ![pkd.fi] =
                      IF pkd.is_first_block
                      THEN [fi EXCEPT !.block_index = pkd.blocktable_idx,
                                      !.offset = total_size,
                                      !.compressed_size = n]
                      ELSE [fi EXCEPT !.compressed_size = @ + n]]
               /\ total_size' = total_size + n
               /\ blocktable' = [blocktable EXCEPT ![pkd.blocktable_idx] = n]
               /\ committed' = Append(committed, [entry |-> pkd.fi, blk |-> pkd.blk])
               /\ threads_info' = [threads_info EXCEPT ![w].pc = "completed"]
               /\ UNCHANGED mainv
          ELSE /\ committed' = Append(committed, [entry |-> pkd.fi, blk |-> pkd.blk])
               /\ total_size' = total_size + n
               /\ UNCHANGED <<archive, files_info_table, blocktable>>
               /\ \/ /\ threads_info' = [threads_info EXCEPT ![w].pc = "completed"]
                     /\ UNCHANGED mainv
                  \/ \* the process is killed, its threads with it
                     /\ ret' = Crashed
                     /\ mpc' = "done"
                     /\ threads_info' = [v \in Workers |->
                                            [threads_info[v] EXCEPT !.pc = "dead"]]
                     /\ UNCHANGED <<i_entry, blocks, first_block, slot>>
    /\ UNCHANGED <<inputs, reader>>
    /\ UNCHANGED <<blocktable_idx, toc_length, toc_entries, filenames,
                   threads_current, threads_last, threads_available,
                   threads_running, threads_max, last_idx, threads_shared_mutex,
                   submitted>>

\* The thread acts on a pending cancellation request.  Inside pthread_cond_wait
\* it first takes the mutex of the wait again, and ends holding it: no cleanup
\* handler unlocks it.  fwrite in the commit section may be a cancellation
\* point too.
Cancelled(w) ==
    /\ threads_info[w].cancel
    /\ \/ /\ threads_info[w].pc \in {"fn_wait", "fn_wake"}
          /\ threads_info[w].mutex = NoOwner
          /\ threads_info' = [threads_info EXCEPT ![w].mutex = w, ![w].pc = "dead"]
          /\ UNCHANGED threads_shared_mutex
       \/ /\ threads_info[w].pc \in {"ord_wait", "ord_wake"}
          /\ threads_shared_mutex = NoOwner
          /\ threads_shared_mutex' = w
          /\ threads_info' = [threads_info EXCEPT ![w].pc = "dead"]
       \/ /\ threads_info[w].pc = "commit"
          /\ threads_info' = [threads_info EXCEPT ![w].pc = "dead"]
          /\ UNCHANGED threads_shared_mutex
    /\ main_unchanged
    /\ UNCHANGED <<writer, threads_current, threads_last, threads_available,
                   threads_running, threads_max, last_idx, hist>>

\* Mutant of Completed: threads_available is not given back.
Completed_keeps_slot(w) ==
    /\ threads_info[w].pc = "completed"
    /\ threads_shared_mutex = NoOwner
    /\ threads_current' = next_ticket(threads_current)
    /\ threads_running' = threads_running - 1
    /\ threads_info' = cond_broadcast([threads_info EXCEPT ![w].pc = "fn_lock"])
    /\ main_unchanged
    /\ UNCHANGED <<writer, threads_last, threads_available, threads_max, last_idx,
                   threads_shared_mutex, hist>>

\* threads_completed, then back to the top of threads_fn's loop.
Completed(w) ==
    /\ threads_info[w].pc = "completed"
    /\ threads_shared_mutex = NoOwner
    /\ threads_current' = next_ticket(threads_current)
    /\ threads_available' = threads_available + 1
    /\ threads_running' = threads_running - 1
    /\ threads_info' = cond_broadcast([threads_info EXCEPT ![w].pc = "fn_lock"])
    /\ main_unchanged
    /\ UNCHANGED <<writer, threads_last, threads_max, last_idx,
                   threads_shared_mutex, hist>>

Worker(w) ==
    \/ FnWait(w)
    \/ FnWake(w)
    \/ FnRun(w)
    \/ Encode(w)
    \/ OrdLock(w)
    \/ OrdSlot(w)
    \/ OrdWake(w)
    \/ Commit(w)
    \/ Completed(w)

(***************************************************************************)
(* Spec: create_archive with the worker pool                               *)
(***************************************************************************)
\* The characters of file names.
PoolName(i) == [j \in 1..i |-> "a"]

\* File sizes around the block boundaries: empty, a short block, whole blocks,
\* whole blocks plus a short one.
SizesFor(bs, maxblocks) ==
    {0} \cup {k * bs - 1 : k \in 1..maxblocks} \cup {k * bs : k \in 1..maxblocks}

\* How the encoded stream's length relates to the block's: shorter, equal, and
\* longer than any output buffer.
EncDeltas(bs) == {0 - 1, 0, 2 * bs + 14}

PoolFiles(codec, i) ==
    {[name |-> PoolName(i), size |-> sz, delta |-> d, sig |-> "none", encok |-> TRUE] :
        sz \in SizesFor(PoolBlockSize, MaxFileBlocks),
        d \in IF codec = PSARC_STORE THEN {0} ELSE EncDeltas(PoolBlockSize)}

PoolFileLists(codec) ==
    UNION {{fs \in [1..n -> UNION {PoolFiles(codec, i) : i \in 1..n}] :
               \A i \in 1..n : fs[i] \in PoolFiles(codec, i) /\ (fs[i].size = 0 => fs[i].delta = 0)} :
           n \in 1..MaxFiles}

idle_rest ==
    /\ ret = Undef
    /\ i_entry = 0
    /\ blocks = 0
    /\ first_block = FALSE
    /\ slot = 0
    /\ files_info_table = <<>>
    /\ blocktable = <<>>
    /\ blocktable_idx = 0
    /\ total_size = 0
    /\ toc_length = 0
    /\ toc_entries = 0
    /\ filenames = <<>>
    /\ threads_current = 1
    /\ threads_last = 1
    /\ threads_available = 0
    /\ threads_running = 0
    /\ threads_max = 0
    /\ last_idx = 0
    /\ threads_shared_mutex = NoOwner
    /\ threads_info = <<>>
    /\ submitted = <<>>
    /\ committed = <<>>
    /\ rd_ArchiveInfo = <<>>
    /\ rd_files_info_table = <<>>
    /\ rd_blocktable = <<>>
    /\ rd_i = 0
    /\ extracted = <<>>
    /\ errors_count = 0
    /\ successful_count = 0
    /\ rd_ret = Undef
    /\ rd_pc = "idle"
    /\ hset = hashset_init

\* Nothing exists at the output paths, every file can be opened, everything
\* is extracted, the archive is read as written.
default_options ==
    /\ overwrite_flag = FALSE
    /\ skip_existing_files_flag = FALSE
    /\ rd_files = <<>>
    /\ unwritable = {}
    /\ unreadable = {}
    /\ truncated_at = Undef
    /\ file_magic = "PSAR"
    /\ filelist = <<>>
    /\ disk = <<>>

\* Before create_archive is called, nothing at the output path.
idle_state ==
    /\ mpc = "start"
    /\ archive = empty_archive
    /\ idle_rest

Init ==
    /\ compression_type \in {PSARC_STORE, PSARC_ZLIB, PSARC_LZMA}
    /\ block_size = PoolBlockSize
    /\ archive_flags = 0
    /\ trim_path_flag = FALSE
    /\ num_threads \in 0..MaxThreads
    /\ files \in PoolFileLists(compression_type)
    /\ mdelta = 0
    /\ default_options
    /\ idle_state

MainStep ==
    \/ CreateBegin
    \/ EntrySync
    \/ EntryMulti
    \/ GetFreeSlot
    \/ GetFreeSlotTry
    \/ FillSlot
    \/ StartTask
    \/ StartTaskPoll
    \/ LoopEnd
    \/ WaitForCompletion
    \/ Finish

Next ==
    \/ MainStep
    \/ \E w \in Workers : Worker(w)

Spec == Init /\ [][Next]_vars

(***************************************************************************)
(* The archive create_archive writes when it runs synchronously            *)
(* (num_threads = 0) on the same inputs: the loop of lines 751-784 with    *)
(* compress_entry, then write_toc_table and write_blocktable.              *)
(***************************************************************************)
RECURSIVE sync_entries(_, _)
sync_entries(ws, i) ==
    IF i > Len(files) THEN ws
    ELSE sync_entries(
             compress_entry([ws EXCEPT !.fit[i].filename = files[i].name], i), i + 1)

sync_writer_state ==
    sync_entries(
        compress_entry(
            [fit   |-> initial_table(files),
             bt    |-> [j \in 0..(blocktable_size_of(files) - 1) |-> Undef],
             idx   |-> 0, total |-> 0, data |-> <<>>], 0), 1)

NoGarbage == [i \in 0..Len(files) |-> <<0, 0>>]

sync_archive ==
    [exists |-> TRUE,
     header |-> write_header(toc_length_of(files), Len(files) + 1),
     toc    |-> write_toc_table(sync_writer_state.fit, NoGarbage),
     bt     |-> write_blocktable(sync_writer_state.bt),
     data   |-> sync_writer_state.data]

\* create_archive returned 0: the archive is complete.
Written == mpc = "done" /\ ret = 0

\* The blocks of the files in the order compress_entry_multi submits them.
RECURSIVE blocks_from(_, _)
blocks_from(i, k) ==
    IF i > Len(files) THEN <<>>
    ELSE IF k >= num_blocks_of(files[i].size) THEN blocks_from(i + 1, 0)
    ELSE <<[entry |-> i, blk |-> k]>> \o blocks_from(i, k + 1)

(***************************************************************************)
(* process_archive (unpak.c) in extract mode, every entry selected, into   *)
(* an empty directory.                                                     *)
(***************************************************************************)
\* _ArchiveInfo.block_size when process_archive allocates its buffers, before
\* read_header: the default of common.c.
DefaultBlockSize == 65536

\* malloc(_ArchiveInfo.block_size * 2)
rd_buffer_size == DefaultBlockSize * 2

\* The upper three bytes of read_blocktable's local `blk`, which fread leaves
\* alone when an item is one byte wide.
GarbageHigh == {0, 1}

\* A FILEINFO.filename that is NULL (calloc).
NullName == <<>>

\* Are the bytes up to offset `end` in the file process_archive opens.
present(end) == truncated_at = Undef \/ end <= truncated_at

\* The file process_archive opens: the archive with the first four bytes and
\* the length it has by then.
opened_file ==
    [archive EXCEPT !.header = IF archive.header = <<>> THEN <<>>
                               ELSE [archive.header EXCEPT !.magic = file_magic],
                    !.data = IF truncated_at = Undef THEN archive.data ELSE <<>>]

\* What read_toc_table's local `toc` may hold when fread did not fill it:
\* [block_index, uncompressed_size, offset].
TocGarbage == {<<0, 0, 0>>, <<0, 1, 32>>}

read_header(ar) ==
    [compression_type |-> IF ar.header.compression_type = "lzma"
                          THEN PSARC_LZMA ELSE PSARC_ZLIB,
     toc_length       |-> be_value(ar.header.toc_length),
     toc_entries      |-> be_value(ar.header.toc_entries),
     block_size       |-> be_value(ar.header.block_size),
     archive_flags    |-> be_value(ar.header.archive_flags)]

\* read_toc_table: the result of fread is not looked at; junk is what `toc`
\* holds for an entry the file ends before.
read_toc_table(ar, info, junk) ==
    [i \in 0..(info.toc_entries - 1) |->
        IF present(SizeofHeader + (i + 1) * SizeofToc)
        THEN [name_digest       |-> ar.toc[i].name_digest,
              block_index       |-> be_value(ar.toc[i].block_offset),
              uncompressed_size |-> be_value(ar.toc[i].uncompressed_size),
              offset            |-> be_value(ar.toc[i].file_offset),
              filename          |-> NullName]
        ELSE [name_digest       |-> ZeroDigest,
              block_index       |-> junk[1],
              uncompressed_size |-> junk[2],
              offset            |-> junk[3],
              filename          |-> NullName]]

\* read_blocktable's blocktable_size
blocktable_items(info) ==
    (info.toc_length - (SizeofHeader + info.toc_entries * SizeofToc))
        \div item_size_for(info.block_size)

\* read_blocktable returns NULL: an item the file ends before, or malloc(0)
\* returning NULL (null0) for a table of no items.
blocktable_fails(info, null0) ==
    IF blocktable_items(info) = 0 THEN null0
    ELSE ~present(SizeofHeader + info.toc_entries * SizeofToc
                  + blocktable_items(info) * item_size_for(info.block_size))

\* read_blocktable: u is what the upper bytes of `blk` hold.
read_blocktable(ar, info, u) ==
    LET bsize == item_size_for(info.block_size)
        blocktable_size == blocktable_items(info)
    IN [i \in 0..(blocktable_size - 1) |->
           IF bsize = 1 THEN u * 256 + ar.bt[i][1] ELSE be_value(ar.bt[i])]

\* decompress_entry: block_size == 0 => is chunk_size.
resolved_block_size(v, chunk_size) == IF v = 0 THEN chunk_size ELSE v

\* The offset of chunk j in the data region, which starts at toc_length.
RECURSIVE chunk_start(_, _)
chunk_start(data, j) ==
    IF j <= 1 THEN 0 ELSE chunk_start(data, j - 1) + data[j - 1].len

\* The chunk that holds the byte at offset pos of the data region, 0 if none.
chunk_at(data, pos) ==
    IF \E j \in 1..Len(data) :
           chunk_start(data, j) <= pos /\ pos < chunk_start(data, j) + data[j].len
    THEN CHOOSE j \in 1..Len(data) :
           chunk_start(data, j) <= pos /\ pos < chunk_start(data, j) + data[j].len
    ELSE 0

\* What one iteration of decompress_entry appends to the output: `len` bytes
\* that come from block blk of entry `entry`; good when they are exactly that
\* block's input bytes, whole when they begin with all of them.
piece(c, len, good, whole) ==
    [entry |-> c.entry, blk |-> c.blk, len |-> len, good |-> good, whole |-> whole]

\* decompress_entry's loop.  pos is the file position relative to toc_length;
\* fault says whether a write beyond a buffer's end is fatal.
RECURSIVE decompress_entry_loop(_, _, _, _, _, _, _, _)
decompress_entry_loop(data, bt, fault, pos, remaining_size, chunk_size, open_block, out) ==
    IF remaining_size <= 0 THEN [err |-> FALSE, fault |-> FALSE, out |-> out]
    ELSE IF open_block \notin DOMAIN bt THEN [err |-> TRUE, fault |-> fault, out |-> out]
    ELSE
    LET block_size_k == resolved_block_size(bt[open_block], chunk_size)
        j  == chunk_at(data, pos)
        cs == IF remaining_size < chunk_size THEN remaining_size ELSE chunk_size
    IN IF block_size_k > rd_buffer_size /\ fault
       THEN [err |-> TRUE, fault |-> TRUE, out |-> out]
       ELSE IF j = 0 \/ pos + block_size_k > chunk_start(data, Len(data) + 1)
       THEN \* fread returns 0 items
            [err |-> TRUE, fault |-> FALSE, out |-> out]
       ELSE
       LET c       == data[j]
           aligned == chunk_start(data, j) = pos
           sig     == IF aligned THEN c.sig ELSE "none"
           stream  == aligned /\ ~c.raw /\ block_size_k >= c.len /\ c.nat <= cs
           next(p) == decompress_entry_loop(data, bt, fault, pos + block_size_k,
                          remaining_size - cs, cs, open_block + 1, Append(out, p))
       IN IF sig = "zlib" /\ block_size_k > 2
          THEN \* uncompress
               IF stream THEN next(piece(c, c.nat, TRUE, TRUE))
               ELSE [err |-> TRUE, fault |-> FALSE, out |-> out]
          ELSE IF sig = "xz" /\ block_size_k > 6
          THEN \* lzma_code, then fwrite of dest_len = chunk_size bytes
               IF stream THEN next(piece(c, cs, c.nat = cs, TRUE))
               ELSE [err |-> TRUE, fault |-> FALSE, out |-> out]
          ELSE \* "It's not a valid block, dump it as is"
               next(piece(c, block_size_k,
                          aligned /\ c.raw /\ block_size_k = c.len,
                          aligned /\ c.raw /\ block_size_k >= c.len))

decompress_entry(ar, info, bt, fi, fault) ==
    decompress_entry_loop(ar.data, bt, fault, fi.offset - info.toc_length,
                          fi.uncompressed_size, info.block_size, fi.block_index, <<>>)

\* strtok(names, "\n") until NULL: the non-empty lines of the text.
RECURSIVE strtok_all(_, _)
strtok_all(t, cur) ==
    IF t = <<>> THEN (IF cur = <<>> THEN <<>> ELSE <<cur>>)
    ELSE IF Head(t) = "\n"
         THEN (IF cur = <<>> THEN <<>> ELSE <<cur>>) \o strtok_all(Tail(t), <<>>)
         ELSE strtok_all(Tail(t), Append(cur, Head(t)))

\* read_filenames: the names given to the entries 1 .. toc_entries - 1.
read_filenames(tbl, text) ==
    LET tokens == strtok_all(text, <<>>)
    IN [i \in DOMAIN tbl |->
           IF i >= 1 /\ i <= Len(tokens)
           THEN [tbl[i] EXCEPT !.filename = tokens[i]] ELSE tbl[i]]

\* decompress_files lines 357-374: the hash set of the names to extract.
RECURSIVE hset_loop(_, _, _, _)
hset_loop(names, flags, i, set) ==
    IF i > Len(names) THEN set
    ELSE hset_loop(names, flags, i + 1,
             hashset_add(set, IF BitAnd(flags, AF_ICASE) # 0
                              THEN lcase(names[i]) ELSE names[i]).set)

build_hset(names, flags) == hset_loop(names, flags, 1, hashset_init)

\* process_archive up to decompress_files' loop: read_header, read_toc_table,
\* read_blocktable, read_filenames.
ProcessBegin ==
    /\ rd_pc = "idle"
    /\ \/ mpc = "done" /\ ret = 0
       \/ mpc = "off"
    /\ IF ~present(SizeofHeader)
       THEN \* read_header: fread returns 0
            /\ rd_ret' = 1
            /\ rd_pc' = "done"
            /\ UNCHANGED <<rd_ArchiveInfo, rd_files_info_table, rd_blocktable, rd_i, hset>>
       ELSE
       \E u \in GarbageHigh, fault \in BOOLEAN,
          junk \in (IF truncated_at = Undef THEN {<<0, 0, 0>>} ELSE TocGarbage),
          null0 \in (IF blocktable_items(read_header(opened_file)) = 0
                     THEN BOOLEAN ELSE {FALSE}) :
          LET info == read_header(opened_file)
              tbl  == read_toc_table(opened_file, info, junk)
              bt   == read_blocktable(opened_file, info, u)
              res  == decompress_entry(opened_file, info, bt, tbl[0], fault)
              over == \E k \in 1..Len(res.out) : res.out[k].whole /\ ~res.out[k].good
          IN /\ rd_ArchiveInfo' = info
             /\ IF blocktable_fails(info, null0)
                THEN /\ rd_ret' = 1
                     /\ rd_pc' = "done"
                     /\ rd_files_info_table' = tbl
                     /\ UNCHANGED <<rd_blocktable, rd_i, hset>>
                ELSE
                /\ rd_blocktable' = bt
                /\ hset' = IF res.err \/ (over /\ fault) THEN hset
                           ELSE build_hset(rd_files, info.archive_flags)
                /\ IF res.err
                   THEN /\ rd_ret' = IF res.fault THEN Crashed ELSE 1
                        /\ rd_pc' = "done"
                        /\ rd_files_info_table' = tbl
                        /\ UNCHANGED rd_i
                   ELSE IF over /\ fault
                   THEN \* memmove beyond the end of names
                        /\ rd_ret' = Crashed
                        /\ rd_pc' = "done"
                        /\ rd_files_info_table' = tbl
                        /\ UNCHANGED rd_i
                   ELSE /\ rd_files_info_table' =
                               read_filenames(tbl,
                                   IF \A k \in 1..Len(res.out) : res.out[k].whole
                                   THEN filenames ELSE <<>>)
                        /\ rd_i' = 1
                        /\ rd_pc' = "files"
                        /\ UNCHANGED rd_ret
    /\ UNCHANGED <<inputs, writer, mainv, pool, hist, extracted, errors_count,
                   successful_count, disk>>

\* dirname(3) and basename(3) of a name that does not end in '/'.
last_slash(str) ==
    IF \E j \in 1..Len(str) : str[j] = "/"
    THEN CHOOSE j \in 1..Len(str) : str[j] = "/" /\ \A k \in (j + 1)..Len(str) : str[k] # "/"
    ELSE 0

RECURSIVE drop_trailing_slashes(_)
drop_trailing_slashes(str) ==
    IF str # <<>> /\ str[Len(str)] = "/"
    THEN drop_trailing_slashes(SubSeq(str, 1, Len(str) - 1)) ELSE str

dirname(str) ==
    IF last_slash(str) = 0 THEN <<".">>
    ELSE LET dir == drop_trailing_slashes(SubSeq(str, 1, last_slash(str)))
         IN IF dir = <<>> THEN <<"/">> ELSE dir

basename(str) == SubSeq(str, last_slash(str) + 1, Len(str))

\* decompress_files lines 410-438: the path handed to access and fopen.
filepath_of(name) ==
    LET dir    == dirname(name)
        outdir == IF dir[1] = "/" \/ dir = <<".">> THEN Tail(dir) ELSE dir
    IN outdir \o (IF outdir # <<>> THEN <<"/">> ELSE <<>>) \o basename(name)

filepath_for_open(name) ==
    IF trim_path_flag THEN basename(filepath_of(name)) ELSE filepath_of(name)

\* A file of the output directory: one that was there before the run, or what
\* the extraction of an entry wrote.
old_file == [old |-> TRUE, entry |-> 0, out |-> <<>>, truncated |-> FALSE]

\* truncated: fopen(.., "wb") found a file at the path.
written_file(i, out, existed) ==
    [old |-> FALSE, entry |-> i, out |-> out, truncated |-> existed]

\* fopen(path, "wb") followed by the writes and fclose.
disk_write(dk, path, f) ==
    [q \in DOMAIN dk \cup {path} |-> IF q = path THEN f ELSE dk[q]]

\* One line of the report with what the iteration left in the output file.
report_item(i, name, path, status, fail, out) ==
    [entry |-> i, name |-> name, path |-> path, report |-> status, fail |-> fail,
     out |-> out]

\* decompress_files line 448: fileexists && !_Config.overwrite_flag
keep_existing_despite_overwrite(path) == path \in DOMAIN disk

keep_existing(path) == path \in DOMAIN disk /\ ~overwrite_flag

\* decompress_files line 496
decompress_files_ret_zero(errs) == 0

decompress_files_ret(errs) == IF errs > 0 THEN 2 ELSE 0

\* decompress_files lines 383-398: does the hash set select the entry.
entry_selected(set, fi) ==
    IF BitAnd(rd_ArchiveInfo.archive_flags, AF_ICASE) # 0
    THEN hashset_contains(set, lcase(fi.filename))
    ELSE fi.filename # NullName /\ hashset_contains(set, fi.filename)

\* decompress_files: one iteration of the loop over the entries.
ExtractEntry ==
    /\ rd_pc = "files"
    /\ rd_i < rd_ArchiveInfo.toc_entries
    /\ LET fi   == rd_files_info_table[rd_i]
           path == filepath_for_open(fi.filename)
       IN IF Len(rd_files) > 0 /\ fi.filename = NullName
             /\ BitAnd(rd_ArchiveInfo.archive_flags, AF_ICASE) # 0
          THEN \* lcase(NULL)
               /\ rd_ret' = Crashed
               /\ rd_pc' = "done"
               /\ UNCHANGED <<rd_i, extracted, errors_count, successful_count, hset, disk>>
          ELSE IF Len(rd_files) > 0 /\ ~entry_selected(hset, fi)
          THEN \* continue
               /\ rd_i' = rd_i + 1
               /\ UNCHANGED <<rd_ret, rd_pc, extracted, errors_count, successful_count,
                              hset, disk>>
          ELSE
          /\ hset' = IF Len(rd_files) > 0 THEN hashset_del(hset, fi.filename).set ELSE hset
          /\ IF fi.filename = NullName
             THEN \* strdup(NULL)
                  /\ rd_ret' = Crashed
                  /\ rd_pc' = "done"
                  /\ UNCHANGED <<rd_i, extracted, errors_count, successful_count, disk>>
             ELSE IF keep_existing(path)
             THEN /\ IF skip_existing_files_flag
                     THEN /\ extracted' = Append(extracted, report_item(rd_i, fi.filename,
                                 path, "skipped (file exists)", FALSE, <<>>))
                          /\ successful_count' = successful_count + 1
                          /\ UNCHANGED errors_count
                     ELSE /\ extracted' = Append(extracted, report_item(rd_i, fi.filename,
                                 path, "fail (file already exists)", TRUE, <<>>))
                          /\ errors_count' = errors_count + 1
                          /\ UNCHANGED successful_count
                  /\ rd_i' = rd_i + 1
                  /\ UNCHANGED <<rd_ret, rd_pc, disk>>
             ELSE IF path \in unwritable
             THEN \* fopen returns NULL
                  /\ extracted' = Append(extracted, report_item(rd_i, fi.filename, path,
                         "fail", TRUE, <<>>))
                  /\ errors_count' = errors_count + 1
                  /\ rd_i' = rd_i + 1
                  /\ UNCHANGED <<rd_ret, rd_pc, successful_count, disk>>
             ELSE \E fault \in BOOLEAN :
                  LET res == decompress_entry(opened_file, rd_ArchiveInfo, rd_blocktable,
                                              fi, fault)
                  IN /\ extracted' = Append(extracted, report_item(rd_i, fi.filename, path,
                            IF res.err THEN "fail" ELSE "ok", res.err, res.out))
                     /\ disk' = disk_write(disk, path,
                                         written_file(rd_i, res.out, path \in DOMAIN disk))
                     /\ IF res.fault
                        THEN /\ rd_ret' = Crashed
                             /\ rd_pc' = "done"
                             /\ UNCHANGED <<rd_i, errors_count, successful_count>>
                        ELSE /\ errors_count' = errors_count + (IF res.err THEN 1 ELSE 0)
                             /\ successful_count' =
                                    successful_count + (IF res.err THEN 0 ELSE 1)
                             /\ rd_i' = rd_i + 1
                             /\ UNCHANGED <<rd_ret, rd_pc>>
    /\ UNCHANGED <<inputs, writer, mainv, pool, hist, rd_ArchiveInfo,
                   rd_files_info_table, rd_blocktable>>

\* decompress_files returns, process_archive returns its value.
ExtractEnd ==
    /\ rd_pc = "files"
    /\ rd_i >= rd_ArchiveInfo.toc_entries
    /\ rd_ret' = decompress_files_ret(errors_count)
    /\ rd_pc' = "done"
    /\ UNCHANGED <<inputs, writer, mainv, pool, hist, rd_ArchiveInfo,
                   rd_files_info_table, rd_blocktable, rd_i, extracted,
                   errors_count, successful_count, hset, disk>>

(***************************************************************************)
(* SpecPak: create_archive run synchronously, then process_archive         *)
(***************************************************************************)
\* Block sizes of every item width: 1 byte (40, 256), 2 bytes (1000),
\* 3 bytes (2^21) and 4 bytes (2^24 + 1).
PakBlockSizes == {40, 256, 1000, 2097152, 16777217}

\* "a", "/a", "//a", "d/a", "x^a" and a name with a newline in it.
PakNames == {<<"a">>, <<"/", "a">>, <<"/", "/", "a">>, <<"d", "/", "a">>,
             <<"x", "^", "a">>, <<"a", "\n", "t">>}

PakSigs == {"none", "zlib", "xz"}

\* The contents of a file: empty, two bytes, a short block, one block, two
\* blocks, whose bytes shrink, keep their length or grow when encoded, and
\* begin like a zlib stream, like an xz stream, or like neither; and a file on
\* which the lzma encoder fails.
PakContents(codec, bs) ==
    {[size |-> 0, delta |-> 0, sig |-> "none", encok |-> TRUE]}
    \cup {[size |-> sz, delta |-> d, sig |-> sg, encok |-> TRUE] :
              sz \in {2, bs - 1, bs, 2 * bs},
              d \in IF codec = PSARC_STORE THEN {0} ELSE EncDeltas(bs),
              sg \in PakSigs}
    \cup (IF codec = PSARC_LZMA
          THEN {[size |-> bs, delta |-> 0 - 1, sig |-> "none", encok |-> FALSE]}
          ELSE {})

named(nm, c) ==
    [name |-> nm, size |-> c.size, delta |-> c.delta, sig |-> c.sig, encok |-> c.encok]

\* The first file: any contents under the name "a", or one short block under
\* any name.
PakFirstFiles(codec, bs) ==
    {named(<<"a">>, c) : c \in PakContents(codec, bs)}
    \cup {named(nm, [size |-> bs - 1, delta |-> 0, sig |-> "none", encok |-> TRUE]) :
              nm \in PakNames}

\* A second file named "b": empty, or one block that shrinks when encoded.
PakSecondFiles(codec, bs) ==
    {named(<<"b">>, [size |-> sz, delta |-> IF codec = PSARC_STORE THEN 0 ELSE 0 - 1,
                     sig |-> "none", encok |-> TRUE]) : sz \in {0, bs}}

PakFileLists(codec, bs) ==
    {<<f>> : f \in PakFirstFiles(codec, bs)}
    \cup {<<f, g>> : f \in PakFirstFiles(codec, bs), g \in PakSecondFiles(codec, bs)}

InitPak ==
    /\ compression_type \in {PSARC_STORE, PSARC_ZLIB, PSARC_LZMA}
    /\ block_size \in PakBlockSizes
    /\ archive_flags \in {0, AF_ABSPATH}
    /\ trim_path_flag \in BOOLEAN
    /\ num_threads = 0
    /\ files \in PakFileLists(compression_type, block_size)
    /\ mdelta = 0
    /\ default_options
    /\ idle_state

NextPak ==
    \/ CreateBegin
    \/ EntrySync
    \/ LoopEnd
    \/ Finish
    \/ ProcessBegin
    \/ ExtractEntry
    \/ ExtractEnd

SpecPak == InitPak /\ [][NextPak]_vars

(***************************************************************************)
(* SpecExt: extraction of some entries into a directory that holds files   *)
(***************************************************************************)
ExtBlockSize == 1000

\* Entry names that differ in case only, and one that differs otherwise.
ExtNames == {<<<<"a">>, <<"A">>>>, <<<<"A">>, <<"a">>>>, <<<<"a">>, <<"b">>>>,
             <<<<"a">>, <<"A">>, <<"b">>>>}

\* A file that extracts, and one whose stored block begins like a zlib stream
\* and fails to decode.
ExtContents == {[size |-> 5, delta |-> 0, sig |-> "none", encok |-> TRUE],
                [size |-> 5, delta |-> 0, sig |-> "zlib", encok |-> TRUE]}

ExtFileLists ==
    UNION {{fs \in [1..Len(nms) -> {named(nms[i], c) : i \in 1..Len(nms), c \in ExtContents}] :
               \A i \in 1..Len(nms) : fs[i].name = nms[i]} : nms \in ExtNames}

\* decompress_files' files[]: nothing, or names to extract.
ExtPatterns == {<<>>, <<<<"a">>>>, <<<<"A">>>>, <<<<"a">>, <<"b">>>>}

ExtDisks == {[q \in D |-> old_file] : D \in SUBSET {<<"a">>, <<"b">>}}

InitExt ==
    /\ compression_type = PSARC_STORE
    /\ block_size = ExtBlockSize
    /\ archive_flags \in {0, AF_ICASE}
    /\ trim_path_flag = FALSE
    /\ num_threads = 0
    /\ files \in ExtFileLists
    /\ mdelta = 0
    /\ overwrite_flag \in BOOLEAN
    /\ skip_existing_files_flag \in BOOLEAN
    /\ rd_files \in ExtPatterns
    /\ unwritable \in {{}, {<<"b">>}}
    /\ unreadable = {}
    /\ truncated_at = Undef
    /\ file_magic = "PSAR"
    /\ filelist = <<>>
    /\ disk \in ExtDisks
    /\ idle_state

SpecExt == InitExt /\ [][NextPak]_vars

(***************************************************************************)
(* SpecOpen: process_archive on a file that is not what create_archive     *)
(* wrote: other leading bytes, cut short, or written by another tool.      *)
(***************************************************************************)
\* One or two files of five bytes or none.
OpenFileLists ==
    LET c(sz) == [size |-> sz, delta |-> 0, sig |-> "none", encok |-> TRUE]
    IN {<<named(<<"a">>, c(5))>>}
       \cup {<<named(<<"a">>, c(sz)), named(<<"b">>, c(5))>> : sz \in {0, 5}}

\* A valid archive of no files, as other PSARC writers produce it: the header
\* and the manifest's TOC entry of length 0, no block-size items, no data.
zero_file_archive ==
    [exists |-> TRUE,
     header |-> write_header(SizeofHeader + SizeofToc, 1),
     toc    |-> [i \in {0} |->
                    [name_digest       |-> ZeroDigest,
                     block_offset      |-> be_bytes(0, 4),
                     uncompressed_size |-> be_bytes(0, 5),
                     file_offset       |-> be_bytes(SizeofHeader + SizeofToc, 5)]],
     bt     |-> <<>>,
     data   |-> <<>>]

\* Where the file is cut: inside the header, at its end, inside and between
\* TOC entries, inside the block-size table.
OpenCuts == {0, 31, 32, 40, 62, 70, 92, 93, 95, 122, 125}

InitOpen ==
    /\ compression_type = PSARC_STORE
    /\ block_size = ExtBlockSize
    /\ archive_flags = 0
    /\ trim_path_flag = FALSE
    /\ num_threads = 0
    /\ mdelta = 0
    /\ overwrite_flag = FALSE
    /\ skip_existing_files_flag = FALSE
    /\ rd_files = <<>>
    /\ unwritable = {}
    /\ unreadable = {}
    /\ filelist = <<>>
    /\ disk = <<>>
    /\ file_magic \in {"PSAR", "RASP"}
    /\ \/ /\ files \in OpenFileLists
          /\ truncated_at \in {Undef} \cup {c \in OpenCuts : c < toc_length_of(files)}
          /\ idle_state
       \/ /\ files = <<>>
          /\ truncated_at \in {Undef} \cup {c \in OpenCuts : c < SizeofHeader + SizeofToc}
          /\ mpc = "off"
          /\ archive = zero_file_archive
          /\ idle_rest

SpecOpen == InitOpen /\ [][NextPak]_vars

(***************************************************************************)
(* SpecList: filelist_add (file_utils.c) called with the paths the command *)
(* line expands to                                                         *)
(***************************************************************************)
MaxAdds == 3

\* The capacity filelist_init is called with.
ListCapacity == 2

\* The working directory /w holds the files a and b, the directory d with a
\* file a, and the symbolic link l to a.
Cwd == <<"w">>

ListDirs == {<<>>, <<"w">>, <<"w", "d">>}

ListRegular == {<<"w", "a">>, <<"w", "b">>, <<"w", "d", "a">>}

ListLinks == {<<"w", "l">>}

link_target(comps) == <<"w", "a">>

\* The arguments: a, ./a, b, d/a, d/../a, ../w/a, /w/a, l, and c, which does
\* not exist.
ListPaths == {<<"a">>, <<".", "/", "a">>, <<"b">>, <<"d", "/", "a">>,
              <<"d", "/", ".", ".", "/", "a">>, <<".", ".", "/", "w", "/", "a">>,
              <<"/", "w", "/", "a">>, <<"l">>, <<"c">>}

\* The components of a path, the empty ones included.
RECURSIVE path_components(_, _)
path_components(path, cur) ==
    IF path = <<>> THEN <<cur>>
    ELSE IF Head(path) = "/" THEN <<cur>> \o path_components(Tail(path), <<>>)
    ELSE path_components(Tail(path), Append(cur, Head(path)))

\* The name of a component as one string of the path alphabet.
comp_name(c) == IF Len(c) = 1 THEN c[1] ELSE "?"

\* A path that is NULL.
NullPath == <<"">>

\* realpath(3): walk the components from the working directory or the root;
\* "." stays, ".." goes up, a link is replaced by its target, anything else
\* must exist.  NullPath stands for NULL.
RECURSIVE realpath_walk(_, _)
realpath_walk(at, comps) ==
    IF at = NullPath THEN NullPath
    ELSE IF comps = <<>> THEN at
    ELSE LET c == Head(comps)
         IN IF at \notin ListDirs THEN NullPath
            ELSE IF c = <<>> \/ c = <<".">> THEN realpath_walk(at, Tail(comps))
            ELSE IF c = <<".", ".">>
            THEN realpath_walk(IF at = <<>> THEN at ELSE SubSeq(at, 1, Len(at) - 1),
                               Tail(comps))
            ELSE LET to == Append(at, comp_name(c))
                 IN IF to \in ListLinks THEN realpath_walk(link_target(to), Tail(comps))
                    ELSE IF to \in ListDirs \cup ListRegular
                    THEN realpath_walk(to, Tail(comps))
                    ELSE NullPath

RECURSIVE join_path(_)
join_path(comps) ==
    IF comps = <<>> THEN <<>> ELSE <<"/", Head(comps)>> \o join_path(Tail(comps))

realpath(path) ==
    LET at == realpath_walk(IF path # <<>> /\ Head(path) = "/" THEN <<>> ELSE Cwd,
                            path_components(path, <<>>))
    IN IF at = NullPath THEN NullPath ELSE IF at = <<>> THEN <<"/">> ELSE join_path(at)

\* rm_dot_dir_from_path: every "./" at the start or after a '/' is removed.
RECURSIVE rm_dot_dir_loop(_, _)
rm_dot_dir_loop(path, i) ==
    IF i > Len(path) - 1 THEN path
    ELSE IF path[i] = "." /\ path[i + 1] = "/" /\ (i = 1 \/ path[i - 1] = "/")
    THEN rm_dot_dir_loop(SubSeq(path, 1, i - 1) \o SubSeq(path, i + 2, Len(path)), i)
    ELSE rm_dot_dir_loop(path, i + 1)

rm_dot_dir_from_path(path) ==
    IF Len(path) >= 2 THEN rm_dot_dir_loop(path, 1) ELSE path

\* strstr(filename, "../"): the index of the first occurrence, 0 for NULL.
strstr_parent(path) ==
    LET hit(i) == path[i] = "." /\ path[i + 1] = "." /\ path[i + 2] = "/"
    IN IF \E i \in 1..(Len(path) - 2) : hit(i)
       THEN CHOOSE i \in 1..(Len(path) - 2) : hit(i) /\ \A k \in 1..(i - 1) : ~hit(k)
       ELSE 0

filelist_init(initialCapacity) ==
    [files |-> <<>>, count |-> 0, capacity |-> initialCapacity, set |-> hashset_init,
     calls |-> 0, arg |-> <<>>, ret |-> Undef]

\* filelist_add; calls, arg and ret record the call and what it returned.
filelist_add(list, filename) ==
    LET canonicalPath == realpath(filename)
        called == [list EXCEPT !.calls = list.calls + 1, !.arg = filename]
    IN IF canonicalPath = NullPath THEN [called EXCEPT !.ret = 0]
       ELSE LET added == hashset_add(list.set, canonicalPath)
            IN IF added.ret = 0 THEN [called EXCEPT !.ret = 0]
               ELSE LET name      == rm_dot_dir_from_path(filename)
                        parentDir == strstr_parent(name)
                    IN [called EXCEPT
                           !.set = added.set,
                           !.capacity = IF list.count >= list.capacity
                                        THEN list.capacity * 2 ELSE list.capacity,
                           !.files = Append(list.files,
                               IF parentDir = 1 \/ (parentDir > 1 /\ name[parentDir - 1] = "/")
                               THEN canonicalPath ELSE name),
                           !.count = list.count + 1,
                           !.ret = 1]

FilelistAdd ==
    /\ filelist.calls < MaxAdds
    /\ \E path \in ListPaths : filelist' = filelist_add(filelist, path)
    /\ UNCHANGED <<options, writer, mainv, pool, hist, reader>>

InitList ==
    /\ compression_type = PSARC_ZLIB
    /\ block_size = DefaultBlockSize
    /\ archive_flags = 0
    /\ trim_path_flag = FALSE
    /\ num_threads = 0
    /\ files = <<>>
    /\ mdelta = 0
    /\ overwrite_flag = FALSE
    /\ skip_existing_files_flag = FALSE
    /\ rd_files = <<>>
    /\ unwritable = {}
    /\ unreadable = {}
    /\ truncated_at = NullPath
    /\ file_magic = "PSAR"
    /\ disk = <<>>
    /\ filelist = filelist_init(ListCapacity)
    /\ idle_state

NextList == FilelistAdd

SpecList == InitList /\ [][NextList]_vars

(***************************************************************************)
(* SpecAbort: create_archive with an output path that may exist and input  *)
(* files that may not open                                                 *)
(***************************************************************************)
\* Two files of two blocks and one block.
AbortFileLists ==
    {<<[name |-> PoolName(1), size |-> 2 * PoolBlockSize, delta |-> 0, sig |-> "none",
        encok |-> TRUE],
       [name |-> PoolName(2), size |-> PoolBlockSize, delta |-> 0, sig |-> "none",
        encok |-> TRUE]>>}

InitAbort ==
    /\ compression_type = PSARC_STORE
    /\ block_size = PoolBlockSize
    /\ archive_flags = 0
    /\ trim_path_flag = FALSE
    /\ num_threads \in 0..MaxThreads
    /\ files \in AbortFileLists
    /\ mdelta = 0
    /\ overwrite_flag \in BOOLEAN
    /\ skip_existing_files_flag = FALSE
    /\ rd_files = <<>>
    /\ unwritable = {}
    /\ unreadable \in {{}, {1}, {2}}
    /\ truncated_at = Undef
    /\ file_magic = "PSAR"
    /\ filelist = <<>>
    /\ disk = <<>>
    /\ mpc = "start"
    /\ archive \in {empty_archive, old_archive}
    /\ idle_rest

NextAbort ==
    \/ MainStep
    \/ EntryAbort
    \/ TfCancel
    \/ TfJoin
    \/ \E w \in Workers : Worker(w)
    \/ \E w \in Workers : Cancelled(w)

SpecAbort == InitAbort /\ [][NextAbort]_vars

(***************************************************************************)
(* SpecFair: create_archive with the worker pool under fair scheduling:    *)
(* a thread that can take a step, and stays able to, takes one.  The       *)
(* dispatcher's polling loops release their mutexes and sleep (usleep)     *)
(* between two polls, and no thread holds a mutex across a wait.           *)
(***************************************************************************)
InitFair ==
    /\ Init
    /\ compression_type = PSARC_STORE

WorkerStep(w) == w \in Workers /\ Worker(w)

Fairness ==
    /\ WF_vars(MainStep)
    /\ \A w \in 0..(MaxThreads - 1) : WF_vars(WorkerStep(w))

SpecFair == InitFair /\ [][Next]_vars /\ Fairness

(***************************************************************************)
(* SpecWrap: the pool late in a long run, when the ticket counters are     *)
(* about to leave the range of int or to reach 0.  The entries that used   *)
(* the earlier tickets are committed and left out of the tables.           *)
(***************************************************************************)
\* threads_current = threads_last after that many tasks, all completed.
WrapStarts == {1, IntMax - 1, IntMax, IntMin, 0 - 2, 0 - 1}

\* A worker back at the top of threads_fn's loop after the task whose ticket
\* came before t.
used_thread(t) ==
    LET before == IF t = IntMin THEN IntMax ELSE t - 1
    IN [fresh_thread EXCEPT !.status = THREADS_STAT_WAIT_FOR_ORDERER_CONTINUE,
                            !.tid = before, !.my_tid = before]

InitWrap ==
    /\ compression_type = PSARC_STORE
    /\ block_size = PoolBlockSize
    /\ archive_flags = 0
    /\ trim_path_flag = FALSE
    /\ num_threads \in 1..MaxThreads
    /\ files \in PoolFileLists(compression_type)
    /\ mdelta = 0
    /\ default_options
    /\ mpc = "loop"
    /\ ret = Undef
    /\ i_entry = 1
    /\ blocks = 0
    /\ first_block = FALSE
    /\ slot = 0
    /\ LET ws0 == [fit   |-> initial_table(files),
                   bt    |-> [j \in 0..(blocktable_size_of(files) - 1) |-> Undef],
                   idx   |-> 0, total |-> 0, data |-> <<>>]
           ws  == compress_entry(ws0, 0)
       IN /\ files_info_table = ws.fit
          /\ blocktable = ws.bt
          /\ blocktable_idx = ws.idx
          /\ total_size = ws.total
          /\ archive = [empty_archive EXCEPT
                           !.exists = TRUE,
                           !.header = write_header(toc_length_of(files), Len(files) + 1),
                           !.data = ws.data]
    /\ toc_length = toc_length_of(files)
    /\ toc_entries = Len(files) + 1
    /\ filenames = build_filenames(files, 1)
    /\ threads_current \in WrapStarts
    /\ threads_last = threads_current
    /\ threads_available = num_threads
    /\ threads_running = 0
    /\ threads_max = num_threads
    /\ last_idx = 0
    /\ threads_shared_mutex = NoOwner
    /\ threads_info =
           [w \in 0..(num_threads - 1) |->
               IF threads_current = 1 THEN fresh_thread ELSE used_thread(threads_current)]
    /\ submitted = <<>>
    /\ committed = <<>>
    /\ rd_ArchiveInfo = <<>>
    /\ rd_files_info_table = <<>>
    /\ rd_blocktable = <<>>
    /\ rd_i = 0
    /\ extracted = <<>>
    /\ errors_count = 0
    /\ successful_count = 0
    /\ rd_ret = Undef
    /\ rd_pc = "idle"
    /\ hset = hashset_init

NextWrap ==
    \/ EntryMulti
    \/ GetFreeSlot
    \/ GetFreeSlotTry
    \/ FillSlot
    \/ StartTask
    \/ StartTaskPoll
    \/ LoopEnd
    \/ WaitForCompletion
    \/ Finish
    \/ \E w \in Workers : Worker(w)

SpecWrap == InitWrap /\ [][NextWrap]_vars

(***************************************************************************)
(* SpecSlot: one slot of the block-size table, from the commit that        *)
(* assigns it through write_blocktable and read_blocktable to the length   *)
(* decompress_entry reads from the archive.                                *)
(***************************************************************************)
\* Block sizes on both sides of each item width.
SlotBlockSizes ==
    {255, 256, 257, 65536, 65537, 1048576, 2097152, 16777216, 16777217}

\* Emitted lengths of a block: around the powers of 256 and up to block_size.
SlotLengths(bs) ==
    {n \in {1, 255, 256, 65535, 65536, 1048575, 1048576, 1048577,
            16777215, 16777216, bs - 1, bs} : n <= bs}

InitSlot ==
    /\ compression_type = PSARC_STORE
    /\ block_size \in SlotBlockSizes
    /\ archive_flags = 0
    /\ trim_path_flag = FALSE
    /\ num_threads = 0
    /\ files = <<>>
    /\ mdelta = 0
    /\ default_options
    /\ mpc = "slot"
    /\ archive = empty_archive
    /\ idle_rest

\* blocktable[*blocktable_idx] = bytes_write, for the first slot.
SlotCommit ==
    /\ mpc = "slot"
    /\ \E n \in SlotLengths(block_size) :
          blocktable' = [j \in 0..0 |-> n]
    /\ blocktable_idx' = 1
    /\ toc_entries' = 1
    /\ toc_length' = SizeofHeader + SizeofToc + get_blocktable_item_size
    /\ mpc' = "slot_write"
    /\ UNCHANGED <<inputs, files_info_table, total_size, filenames, archive, ret,
                   i_entry, blocks, first_block, slot, pool, hist, reader>>

\* write_header and write_blocktable.
SlotWrite ==
    /\ mpc = "slot_write"
    /\ archive' = [archive EXCEPT !.exists = TRUE,
                                  !.header = write_header(toc_length, toc_entries),
                                  !.bt = write_blocktable(blocktable)]
    /\ mpc' = "slot_read"
    /\ UNCHANGED <<inputs, files_info_table, blocktable, blocktable_idx, total_size,
                   toc_length, toc_entries, filenames, ret, i_entry, blocks,
                   first_block, slot, pool, hist, reader>>

\* read_header and read_blocktable.
SlotRead ==
    /\ mpc = "slot_read"
    /\ \E u \in GarbageHigh :
          rd_blocktable' = read_blocktable(archive, read_header(archive), u)
    /\ rd_ArchiveInfo' = read_header(archive)
    /\ mpc' = "slot_done"
    /\ UNCHANGED <<inputs, writer, ret, i_entry, blocks, first_block, slot, pool,
                   hist, rd_files_info_table, rd_i, extracted, errors_count,
                   successful_count, rd_ret, rd_pc, hset, disk>>

NextSlot == SlotCommit \/ SlotWrite \/ SlotRead

SpecSlot == InitSlot /\ [][NextSlot]_vars

(***************************************************************************)
(* C1  Blocks are committed in exactly the order in which                  *)
(* threads_start_task issued their tickets: at every moment the k-th       *)
(* committed block is the k-th submitted block, and when create_archive    *)
(* returns every submitted block has been committed.                       *)
(***************************************************************************)
C1_CommitOrderIsSubmitOrder ==
    /\ Len(committed) <= Len(submitted)
    /\ \A k \in 1..Len(committed) : committed[k] = submitted[k]
    /\ (Written /\ num_threads > 0) =>
           /\ committed = submitted
           /\ committed = blocks_from(1, 0)
           /\ archive.data = sync_writer_state.data

\* A worker holding a later ticket is waiting while two blocks have committed.
C1_Witness ==
    /\ Len(committed) >= 2
    /\ \E w \in Workers : threads_info[w].pc = "ord_wait"
    /\ \E w \in Workers : threads_info[w].pc = "commit"

(***************************************************************************)
(* What the claims speak about                                             *)
(***************************************************************************)
\* The archive as a reader of the format sees it.
toc_field(i, f) == be_value(archive.toc[i][f])

\* uncompressed_size of entry e as create_archive obtained it.
entry_size(e) == IF e = 0 THEN filenames_len_of(files, 1) ELSE files[e].size

\* ceil(s / block_size)
ceil_blocks(s) == IF s % block_size = 0 THEN s \div block_size ELSE s \div block_size + 1

\* The natural length L_k of block k of entry e: block_size, or what is left.
natural_len(e, k) ==
    IF (k + 1) * block_size <= entry_size(e)
    THEN block_size ELSE entry_size(e) - k * block_size

\* The encoded length C_k of block k of entry e under the create codec (the
\* store codec's encoding of a block is the block).
encoded_len(e, k) ==
    IF compression_type = PSARC_STORE THEN natural_len(e, k)
    ELSE enc_len(e, natural_len(e, k))

\* The smallest W with block_size <= 2^(8W); a 32-bit block_size is never
\* above 2^32.
item_width == CHOOSE W \in 1..4 : /\ W = 4 \/ block_size <= Pow2(8 * W)
                                  /\ \A V \in 1..(W - 1) : block_size > Pow2(8 * V)

\* process_archive returned.
Extracted == rd_pc = "done"

\* The bytes of file i, block by block.
original_bytes(i) ==
    [k \in 1..ceil_blocks(files[i].size) |->
        [entry |-> i, blk |-> k - 1, len |-> natural_len(i, k - 1),
         good |-> TRUE, whole |-> TRUE]]

(***************************************************************************)
(* C2  For the store and zlib codecs the archive written with a worker     *)
(* pool is the archive written synchronously from the same file list:      *)
(* same header, TOC entries, block-size table and data, for files of any   *)
(* size, size 0 included.                                                  *)
(***************************************************************************)
C2_ThreadedEqualsSync ==
    (Written /\ compression_type \in {PSARC_STORE, PSARC_ZLIB}) =>
        archive = sync_archive

(***************************************************************************)
(* C3  Round trip: extracting an archive written by create_archive yields, *)
(* for every file entry, exactly the original bytes, for every codec,      *)
(* block size and file contents, whatever the leading bytes of the blocks  *)
(* emitted verbatim.                                                       *)
(***************************************************************************)
C3_RoundTrip ==
    Extracted =>
        /\ rd_ret = 0
        /\ Len(extracted) = Len(files)
        /\ \A i \in 1..Len(extracted) :
               /\ ~extracted[i].fail
               /\ extracted[i].out = original_bytes(i)

(***************************************************************************)
(* C4  Offset contiguity: in every written archive entry 0 has             *)
(* file_offset = toc_length and entry i's file_offset plus its             *)
(* compressed_size is entry i+1's file_offset, synchronous or threaded,    *)
(* zero-length files included.                                             *)
(***************************************************************************)
C4_OffsetContiguity ==
    Written =>
        /\ toc_field(0, "file_offset") = toc_length
        /\ \A i \in 0..(toc_entries - 2) :
               toc_field(i, "file_offset") + files_info_table[i].compressed_size
                   = toc_field(i + 1, "file_offset")

(***************************************************************************)
(* C5  Block-table consistency: for every entry of a written archive the   *)
(* sum of its block-table slots, a slot of 0 standing for block_size,      *)
(* is the number of bytes the writer appended to the data region for it.   *)
(***************************************************************************)
C5_BlockTableConsistency ==
    Written =>
        \A e \in 0..(toc_entries - 1) :
            LET first == toc_field(e, "block_offset")
                count == ceil_blocks(toc_field(e, "uncompressed_size"))
                resolved(k) == IF be_value(archive.bt[k]) = 0
                               THEN block_size ELSE be_value(archive.bt[k])
            IN SumSeq([k \in 1..count |-> resolved(first + k - 1)])
                   = files_info_table[e].compressed_size

(***************************************************************************)
(* C6  Fallback rule: every block written to the data region, by the       *)
(* synchronous and by the threaded path, has min(C_k, L_k) bytes: the L_k  *)
(* input bytes when C_k >= L_k, the C_k encoded bytes otherwise.           *)
(***************************************************************************)
C6_FallbackRule ==
    \A j \in 1..Len(archive.data) :
        LET c == archive.data[j]
            L == natural_len(c.entry, c.blk)
            C == encoded_len(c.entry, c.blk)
        IN /\ c.len = Min(C, L)
           /\ c.raw <=> (C >= L)
           /\ c.nat = L

\* A threaded zlib archive holding a block stored verbatim because its encoding
\* is exactly as long as the block, and an encoded block.
C6_Witness ==
    /\ Written
    /\ num_threads > 0
    /\ compression_type = PSARC_ZLIB
    /\ \E j \in 1..Len(archive.data) :
           /\ archive.data[j].raw
           /\ encoded_len(archive.data[j].entry, archive.data[j].blk) = archive.data[j].nat
    /\ \E j \in 1..Len(archive.data) : ~archive.data[j].raw

(***************************************************************************)
(* C7  For every block the item written to the block-size table is the     *)
(* sentinel 0 when the emitted byte count equals block_size and the        *)
(* emitted byte count otherwise.                                           *)
(***************************************************************************)
C7_SentinelOrEmitted ==
    Written =>
        \A j \in 1..Len(archive.data) :
            be_value(archive.bt[j - 1]) =
                IF archive.data[j].len = block_size THEN 0 ELSE archive.data[j].len

(***************************************************************************)
(* C8  In every written archive the header's toc_length is                 *)
(* 32 + entry_count * 30 + total_blocks * W, with entry_count the manifest *)
(* plus the files, total_blocks the sum over all entries of                *)
(* ceil(uncompressed_size / block_size), W the item width of block_size.   *)
(***************************************************************************)
C8_TocLength ==
    Written =>
        LET entry_count  == Len(files) + 1
            total_blocks ==
                SumSeq([k \in 1..entry_count |->
                           ceil_blocks(toc_field(k - 1, "uncompressed_size"))])
        IN /\ be_value(archive.header.toc_length)
                  = 32 + entry_count * 30 + total_blocks * item_width
           /\ be_value(archive.header.toc_entries) = entry_count
           /\ Len(archive.data) = total_blocks

\* An archive of two files and at least four blocks with three-byte items.
C8_Witness ==
    /\ Written
    /\ Len(files) = 2
    /\ item_width = 3
    /\ Len(archive.data) >= 4

(***************************************************************************)
(* C9  The header's codec tag is "lzma" exactly when the create codec is   *)
(* LZMA and "zlib" otherwise (store and zlib), however many blocks were    *)
(* emitted verbatim.                                                       *)
(***************************************************************************)
C9_CodecTag ==
    archive.exists =>
        /\ archive.header.compression_type = "lzma" <=> compression_type = PSARC_LZMA
        /\ archive.header.compression_type = "zlib" <=> compression_type # PSARC_LZMA

\* An LZMA archive all of whose blocks were emitted verbatim.
C9_Witness ==
    /\ Written
    /\ compression_type = PSARC_LZMA
    /\ Len(archive.data) >= 2
    /\ \A j \in 1..Len(archive.data) : archive.data[j].raw

(***************************************************************************)
(* C10  In every written archive entry 0 has an all-zero name_digest and   *)
(* entry i >= 1 has the MD5 of the i-th filename as the manifest stores    *)
(* it, after the writer's path normalisation.                              *)
(***************************************************************************)
C10_NameDigest ==
    Written =>
        /\ archive.toc[0].name_digest = ZeroDigest
        /\ \A i \in 1..(toc_entries - 1) :
               archive.toc[i].name_digest = md5(stored_name(files[i].name))

(***************************************************************************)
(* C11  For every archive written by create_archive from N files,          *)
(* read_filenames yields exactly N = entry_count - 1 names, and the i-th   *)
(* decoded name is given to TOC entry i, in the order in which the writer  *)
(* stored the entries.                                                     *)
(***************************************************************************)
C11_ManifestDecodes ==
    rd_pc # "idle" =>
        /\ rd_ArchiveInfo.toc_entries = Len(files) + 1
        /\ \A i \in 1..Len(files) :
               rd_files_info_table[i].filename = stored_name(files[i].name)

(***************************************************************************)
(* C20  With and without trim_paths the name stored in the manifest is:    *)
(* with absolute_paths set, the path with one '/' put before it unless it  *)
(* already begins with '/'; with absolute_paths clear, the path without    *)
(* its leading '/' characters.                                             *)
(***************************************************************************)
\* The path the name is made of: its last component under trim_paths.
trimmed_path(path) ==
    IF trim_path_flag /\ \E j \in 1..Len(path) : path[j] = "/"
    THEN SubSeq(path, 1 + CHOOSE j \in 1..Len(path) :
                          path[j] = "/" /\ \A k \in (j + 1)..Len(path) : path[k] # "/",
                Len(path))
    ELSE path

first_non_slash(path) ==
    IF \E j \in 1..Len(path) : path[j] # "/"
    THEN CHOOSE j \in 1..Len(path) : path[j] # "/" /\ \A k \in 1..(j - 1) : path[k] = "/"
    ELSE Len(path) + 1

normalised_name(path) ==
    LET t == trimmed_path(path)
    IN IF BitAnd(archive_flags, AF_ABSPATH) # 0
       THEN IF t # <<>> /\ t[1] = "/" THEN t ELSE <<"/">> \o t
       ELSE SubSeq(t, first_non_slash(t), Len(t))

RECURSIVE manifest_lines(_)
manifest_lines(i) ==
    IF i > Len(files) THEN <<>>
    ELSE normalised_name(files[i].name)
         \o (IF i < Len(files) THEN <<"\n">> ELSE <<>>) \o manifest_lines(i + 1)

C20_StoredNames ==
    Written =>
        /\ filenames = manifest_lines(1)
        /\ files_info_table[0].uncompressed_size = Len(filenames)

\* "//a" written without absolute_paths, and "d/a" trimmed with them.
C20_Witness ==
    /\ Written
    /\ \/ /\ files[1].name = <<"/", "/", "a">>
          /\ BitAnd(archive_flags, AF_ABSPATH) = 0
          /\ filenames = <<"a">>
       \/ /\ files[1].name = <<"d", "/", "a">>
          /\ BitAnd(archive_flags, AF_ABSPATH) # 0
          /\ trim_path_flag
          /\ filenames = <<"/", "a">>

\* The line decompress_files reported in this step, if it reported one.
reported == Len(extracted') = Len(extracted) + 1

last_item == extracted'[Len(extracted')]

processed(i) == \E k \in 1..Len(extracted) : extracted[k].entry = i

C14_IcaseSelectsAll ==
    (Extracted /\ BitAnd(archive_flags, AF_ICASE) # 0 /\ rd_files # <<>>) =>
        \A i \in 1..Len(files) :
            (\E j \in 1..Len(rd_files) : lcase(rd_files[j]) = lcase(files[i].name))
                => processed(i)

(***************************************************************************)
(* C17  Opening a file of at least 32 bytes whose first four bytes are not *)
(* "PSAR" fails: process_archive returns 1 and no TOC entry is listed or   *)
(* extracted.                                                              *)
(***************************************************************************)
C17_InvalidMagic ==
    (file_magic # "PSAR" /\ present(SizeofHeader)) =>
        /\ rd_pc \in {"idle", "done"}
        /\ rd_pc = "done" => rd_ret = 1
        /\ extracted = <<>>

(***************************************************************************)
(* C18  Opening an archive in which the 32-byte header, the TOC of         *)
(* entry_count * 30 bytes or the block-size table ends before its declared *)
(* length fails with an error; process_archive does not go on with entries *)
(* it read in part or not at all.                                          *)
(***************************************************************************)
C18_Truncated ==
    (file_magic = "PSAR" /\ truncated_at # Undef) =>
        /\ rd_pc \in {"idle", "done"}
        /\ rd_pc = "done" => rd_ret = 1
        /\ extracted = <<>>

(***************************************************************************)
(* C19  After any sequence of filelist_add calls the list holds at most    *)
(* one entry per canonical absolute path: adding a path whose canonical    *)
(* form was already added leaves the list's count, contents and order      *)
(* unchanged, and a new one is appended.                                   *)
(***************************************************************************)
\* The canonical paths of the entries of a list.
canonical_of(list) == {realpath(list.files[k]) : k \in 1..Len(list.files)}

C19_OnePerCanonicalPath ==
    [][filelist'.calls = filelist.calls + 1 =>
          LET canon == realpath(filelist'.arg)
          IN /\ filelist'.count = Len(filelist'.files)
             /\ Cardinality(canonical_of(filelist')) = filelist'.count
             /\ NullPath \notin canonical_of(filelist')
             /\ IF canon = NullPath \/ canon \in canonical_of(filelist)
                THEN /\ filelist'.files = filelist.files
                     /\ filelist'.count = filelist.count
                ELSE /\ Len(filelist'.files) = Len(filelist.files) + 1
                     /\ SubSeq(filelist'.files, 1, Len(filelist.files)) = filelist.files
                     /\ realpath(filelist'.files[Len(filelist'.files)]) = canon]_vars

\* a, ./a and l were added in turn and the list holds a alone.
C19_Witness ==
    /\ filelist.calls = 3
    /\ filelist.arg = <<"l">>
    /\ filelist.ret = 0
    /\ filelist.files = <<<<"a">>>>
    /\ filelist.count = 1

(***************************************************************************)
(* C15  If the output path exists and overwrite_flag is not set,           *)
(* create_archive returns 1 and leaves the existing file untouched: it is  *)
(* neither opened for writing, truncated nor unlinked.                     *)
(***************************************************************************)
C15_ExistingOutputKept ==
    [][(mpc = "start" /\ archive.exists /\ ~overwrite_flag) =>
          /\ mpc' = "done"
          /\ ret' = 1
          /\ archive' = archive
          /\ archive' = old_archive]_vars

\* create_archive has returned 1 and the old file is at the output path.
C15_Witness ==
    /\ mpc = "done"
    /\ ret = 1
    /\ ~overwrite_flag
    /\ archive = old_archive
    /\ toc_entries = 0

(***************************************************************************)
(* C16  If an input file cannot be opened while entries 1..N are streamed, *)
(* create_archive processes no further entry, returns 1, and the partial   *)
(* output file no longer exists when it returns, with num_threads = 0 and  *)
(* with num_threads >= 1.                                                  *)
(***************************************************************************)
\* The streaming loop was entered and will meet a file that does not open.
streamed == toc_entries > 0 /\ unreadable # {}

first_unreadable == CHOOSE i \in unreadable : \A k \in unreadable : i <= k

\* create_archive is inside pthread_join and no thread can take a step.
join_hangs == mpc = "tf_join" /\ ~ENABLED NextAbort

C16_AbortOnUnopenable ==
    streamed =>
        /\ \A k \in 1..Len(submitted) : submitted[k].entry < first_unreadable
        /\ \A k \in 1..Len(archive.data) : archive.data[k].entry < first_unreadable
        /\ mpc = "done" => (ret = 1 /\ ~archive.exists)
        /\ ~join_hangs

(***************************************************************************)
(* C21  At any time at most one worker is in the commit section, from the  *)
(* return of threads_wait_for_orderer_continue to the call of              *)
(* threads_completed, for every number of workers and every interleaving.  *)
(***************************************************************************)
\* The workers between the return of threads_wait_for_orderer_continue and
\* the pool mutex of threads_completed.
in_commit_section ==
    {w \in Workers : threads_info[w].pc \in {"commit", "completed"}}

C21_OneCommitter == Cardinality(in_commit_section) <= 1

\* One worker is in its commit section while the other, its block encoded,
\* holds a later ticket and is kept waiting.
C21_Witness ==
    /\ Cardinality(in_commit_section) = 1
    /\ \E w \in Workers :
          /\ threads_info[w].pc \in {"ord_wait", "ord_wake"}
          /\ threads_info[w].my_tid # threads_current

(***************************************************************************)
(* C22  threads_wait_for_completion returns only in a state where every    *)
(* block submitted so far has finished its commit (threads_running = 0 and *)
(* threads_available = threads_max), so the TOC and the block-size table   *)
(* are written only after every block-table slot and every entry's offset  *)
(* and compressed_size have received their last update.                    *)
(***************************************************************************)
\* threads_wait_for_completion has returned and the tables are not yet written.
completion_returned == mpc = "finish" /\ num_threads > 0

\* Every worker is at the top of threads_fn's loop or waiting for a task.
workers_idle ==
    \A w \in Workers : threads_info[w].pc \in {"fn_lock", "fn_wait"}

C22_CompletionMeansCommitted ==
    completion_returned =>
        /\ threads_running = 0
        /\ threads_available = threads_max
        /\ committed = submitted
        /\ workers_idle
        /\ \A j \in 0..(blocktable_idx - 1) : blocktable[j] # Undef
        /\ \A k \in 1..Len(submitted) :
               files_info_table[submitted[k].entry].offset # Undef

\* threads_wait_for_completion has returned after blocks of two entries went
\* through both workers.
C22_Witness ==
    /\ completion_returned
    /\ num_threads = 2
    /\ Len(committed) >= 3
    /\ \E k \in 1..Len(committed) : committed[k].entry = 2

(***************************************************************************)
(* C23  The ticket issued by threads_start_task (threads_last) and the     *)
(* shared current ticket (threads_current) are never 0 and advance         *)
(* identically, both skipping 0 when the integer wraps around: the next    *)
(* block allowed to commit is still the next block that was submitted.     *)
(***************************************************************************)
\* The ticket k steps after t.
RECURSIVE ticket_after(_, _)
ticket_after(t, k) == IF k = 0 THEN t ELSE ticket_after(next_ticket(t), k - 1)

\* The tickets issued whose holder has not yet been through threads_completed.
tickets_out ==
    Len(submitted) - Len(committed)
    + Cardinality({w \in Workers : threads_info[w].pc = "completed"})

\* The workers that hold a ticket of the current run of tasks.
ticket_holders ==
    {w \in Workers : threads_info[w].pc \in {"ord_wait", "ord_wake", "commit", "completed"}}

C23_TicketsInStep ==
    /\ threads_current # 0
    /\ threads_last # 0
    /\ threads_last = ticket_after(threads_current, tickets_out)
    /\ \A w \in ticket_holders : threads_info[w].my_tid # 0
    /\ \A w \in Workers :
           threads_info[w].pc = "commit" => threads_info[w].my_tid = threads_current
    /\ Len(committed) <= Len(submitted)
    /\ \A k \in 1..Len(committed) : committed[k] = submitted[k]

\* Both counters have been past the end of int and past 0, and a block
\* submitted after that is in its commit section.
C23_Witness ==
    /\ threads_current \in {1, IntMin + 1}
    /\ Len(committed) >= 2
    /\ \E w \in Workers : threads_info[w].pc = "commit"
    /\ threads_last = next_ticket(threads_current)

(***************************************************************************)
(* C24  threads_get_free_slot hands out a slot only when its status is     *)
(* FREE, that is when its worker has finished its previous task and waits  *)
(* for a new one; the dispatcher fills the slot's buffer and task fields   *)
(* only while that worker is idle, never while it encodes or commits.      *)
(***************************************************************************)
\* compress_entry_multi is between the return of threads_get_free_slot and
\* the call of threads_start_task: it writes the slot's PAKDATA.
filling == mpc \in {"fill", "start_task"}

\* The worker is inside pthread_cond_wait(&ti->condition, &ti->mutex).
idle(w) == threads_info[w].pc = "fn_wait" /\ threads_info[w].mutex = NoOwner

C25_SlotRoundTrip ==
    mpc = "slot_done" =>
        resolved_block_size(rd_blocktable[0], rd_ArchiveInfo.block_size) = blocktable[0]

(***************************************************************************)
(* C29  In process_archive, for every block_size declared in the header,   *)
(* every block read into the reader's source buffer and every block        *)
(* decoded into its target buffer fits that buffer: the buffers' capacity  *)
(* is at least the block size of the archive being read.                   *)
(***************************************************************************)
\* The entries decompress_entry has been called for: the manifest, and the
\* entries decompress_files' loop is past.
entries_read ==
    IF rd_pc = "idle" \/ rd_blocktable = <<>> THEN {}
    ELSE {e \in DOMAIN rd_files_info_table : e = 0 \/ e < rd_i}

\* The block-table slots decompress_entry walks for entry e.
slots_of(e) ==
    LET fi == rd_files_info_table[e]
        n  == (fi.uncompressed_size + rd_ArchiveInfo.block_size - 1)
                  \div rd_ArchiveInfo.block_size
    IN {j \in DOMAIN rd_blocktable : fi.block_index <= j /\ j < fi.block_index + n}

C29_BlocksFitBuffers ==
    \A e \in entries_read : \A j \in slots_of(e) :
        /\ resolved_block_size(rd_blocktable[j], rd_ArchiveInfo.block_size)
               <= rd_buffer_size
        /\ Min(rd_files_info_table[e].uncompressed_size, rd_ArchiveInfo.block_size)
               <= rd_buffer_size

(***************************************************************************)
(* C30  When create_archive aborts with num_threads >= 1 because an input  *)
(* cannot be opened while earlier blocks are still encoding or waiting for *)
(* their ticket, no worker writes to the archive file, the block table or  *)
(* the entry table after create_archive has closed or freed them.          *)
(***************************************************************************)
\* A worker runs its commit section: fwrite to pkd->fp, the entry's offset
\* and compressed_size, the block-table slot.
commit_runs == committed' # committed

C30_NoCommitAfterRelease == [][released => ~commit_runs]_vars

(***************************************************************************)
(* C28  In every reachable state of an initialised pool,                   *)
(* 0 <= threads_available <= threads_max and                               *)
(* 0 <= threads_running <= threads_max - threads_available, and            *)
(* threads_available equals threads_max minus the number of slots that     *)
(* were reserved by threads_get_free_slot and whose task has not yet       *)
(* called threads_completed.                                               *)
(***************************************************************************)
\* The slots reserved by threads_get_free_slot whose task has not been
\* through threads_completed.
slots_out ==
    {w \in Workers :
        \/ threads_info[w].status = THREADS_STAT_RESERVED
        \/ /\ threads_info[w].status \in {THREADS_STAT_RUNNING,
                                          THREADS_STAT_WAIT_FOR_ORDERER_CONTINUE}
           /\ threads_info[w].pc # "fn_lock"}

work_left == num_threads >= 1 /\ mpc \notin {"start", "done"}

\* Some thread can take a step that changes the state: not every thread is
\* waiting for a mutex or a condition, and the dispatcher does not poll a
\* pool in which nothing can move.
can_move == ENABLED <<Next>>_vars

dispatching == mpc \in {"gfs", "gfs_slot", "start_task", "start_task_poll"}

====
